---- MODULE Spec2Model ----
(***************************************************************************)
(* Model of claude-model-router's protocol translation proxy               *)
(* (src/src/claude_model_router/proxy.py).                                 *)
(*                                                                         *)
(* Strings that the code slices or searches are sequences of one-character *)
(* or one-phrase strings; a JSON value is a record; Python's None is NoneV *)
(* for names and ids and -1 for block indices.                             *)
(*                                                                         *)
(* SpecStream  one streaming response: the loop of _handle_stream or of    *)
(*             _handle_responses_stream over the upstream lines, writing   *)
(*             Anthropic frames through an AnthropicStreamWriter.          *)
(* SpecS4      the same handlers, upstream restricted to the events of     *)
(*             scenario S4.                                                *)
(* SpecPost    one POST through ProxyHandler.do_POST: validation,          *)
(*             dispatch, fallback retry and error forwarding.              *)
(* SpecRoute   one application of should_use_responses.                    *)
(* SpecUrl     one application of build_upstream_url.                      *)
(* SpecChatReply  one application of openai_to_anthropic.                  *)
(* SpecChatRequest  one application of anthropic_to_openai.                *)
(* SpecSupervisor  one call of proxy_manager.ensure_proxy_running, the     *)
(*             /health probes answered by the environment.                 *)
(* SpecToolChoice  one application of map_tool_choice.                     *)
(* SpecMerge   one application of config.deep_merge.                       *)
(* SpecNormalize  one application of config.normalize_value.               *)
(* SpecTwice   the translation of one request or one reply applied twice  *)
(*             in one process, the uuid4 values drawn in order.            *)
(* SpecHealth  one GET served by do_GET and one /health payload judged by  *)
(*             check_proxy_health and is_proxy_compatible.                 *)
(* SpecServe   two handler threads of the ThreadingHTTPServer, each in a   *)
(*             stream handler with a writer of its own.                    *)
(***************************************************************************)
EXTENDS Integers, Sequences, FiniteSets, TLC

VARIABLES
    upstream,       \* which lines the upstream server may send: "any" or "s4"
    path,           \* "chat" (_handle_stream) or "responses" (_handle_responses_stream)
    pc,             \* position of the stream handler: "read", "done", "broken", "crashed"
    events,         \* the upstream lines consumed so far, in order
    writer,         \* the AnthropicStreamWriter; writer.wfile is handler.wfile
    tool_args,      \* _handle_responses_stream's local accumulator per output index
    environ,        \* os.environ of the proxy process
    post_pc,        \* position of do_POST: "idle", "dispatch", "retry", "done", "crashed"
    request,        \* the POST that do_POST handles
    locals,         \* do_POST's stream, requested_model, use_responses, api_key
    calls,          \* the upstream calls made for the request, in order
    replies,        \* the responses sent to the client, in order
    call,           \* one application of a translation function: input and result
    sup_pc,         \* position of the supervisor: "import", "entry", "start", "wait",
                    \* "candidate", "returned", "crashed"
    sup,            \* ensure_proxy_running's arguments and locals
    last_probe,     \* the last /health probe made: its URL and the answer
    ret,            \* what ensure_proxy_running returned: status and URL
    host_os,        \* the machine of the supervisor: os.name, the processes that
                    \* ps or the WMI query lists, the pids listening on the port
    history         \* what the call did so far: processes signalled and killed,
                    \* URLs passed to start_proxy_process, the first probe

streamVars == <<upstream, path, pc, events, writer, tool_args>>

postVars == <<environ, post_pc, request, locals, calls, replies>>

supVars == <<sup_pc, sup, last_probe, ret, host_os, history>>

vars == <<upstream, path, pc, events, writer, tool_args,
          environ, post_pc, request, locals, calls, replies, call,
          sup_pc, sup, last_probe, ret, host_os, history>>

-----------------------------------------------------------------------------
(* Bounds *)

\* upstream lines consumed by one streaming response before the stream ends
MaxEvents == 3

\* upstream lines of a response of the S4 upstream
MaxS4Events == 5

\* messages of a request given to anthropic_to_openai
MaxMessages == 2

\* characters of a string given to normalize_value
MaxValueLen == 3

\* upstream lines a thread of the server reads (SpecServe)
MaxThreadEvents == 2

-----------------------------------------------------------------------------
(* Values *)

NoneV == "None"

\* None where a text (a sequence of characters) is expected
TextNone == <<NoneV>>

\* str.startswith on sequences
StartsWith(s, p) == Len(p) <= Len(s) /\ SubSeq(s, 1, Len(p)) = p

\* s[n:] on sequences
DropFirst(s, n) == SubSeq(s, n + 1, Len(s))

\* sub in s
Contains(s, sub) ==
    \E i \in 0..(Len(s) - Len(sub)) : SubSeq(s, i + 1, i + Len(sub)) = sub

\* str.endswith on sequences
EndsWith(s, p) == Len(p) <= Len(s) /\ SubSeq(s, Len(s) - Len(p) + 1, Len(s)) = p

UpperCase ==
    <<"A", "B", "C", "D", "E", "F", "G", "H", "I", "J", "K", "L", "M",
      "N", "O", "P", "Q", "R", "S", "T", "U", "V", "W", "X", "Y", "Z",
      "NOT A CHAT MODEL", "Chat/Completions", "V1/", "Bearer", "BEARER">>

LowerCase ==
    <<"a", "b", "c", "d", "e", "f", "g", "h", "i", "j", "k", "l", "m",
      "n", "o", "p", "q", "r", "s", "t", "u", "v", "w", "x", "y", "z",
      "not a chat model", "chat/completions", "v1/", "bearer", "bearer">>

\* str.lower, letter by letter (phrase by phrase where a text is a sequence
\* of phrases)
Lower(s) ==
    [i \in 1..Len(s) |->
        IF \E j \in 1..Len(UpperCase) : UpperCase[j] = s[i]
        THEN LowerCase[CHOOSE j \in 1..Len(UpperCase) : UpperCase[j] = s[i]]
        ELSE s[i]]

Whitespace == {" ", "\t", "\n"}

RECURSIVE LStrip(_)
LStrip(s) == IF s /= <<>> /\ Head(s) \in Whitespace THEN LStrip(Tail(s)) ELSE s

RECURSIVE RStrip(_)
RStrip(s) ==
    IF s /= <<>> /\ s[Len(s)] \in Whitespace THEN RStrip(SubSeq(s, 1, Len(s) - 1)) ELSE s

\* str.strip
Strip(s) == LStrip(RStrip(s))

\* uuid.uuid4().hex: the n-th value drawn is a token equal to no other one
\* and to no value that upstream sends
Uuid(n) == "uuid" \o ToString(n)

FabricatedToolId(n) == "tool_" \o Uuid(n)

-----------------------------------------------------------------------------
(* Frames written downstream: event name, block index, block type / delta  *)
(* type / stop_reason, tool id, tool name, text or partial_json.           *)

Frame(type, index, kind, id, name, data) ==
    [type |-> type, index |-> index, kind |-> kind, id |-> id, name |-> name,
     data |-> data]

MessageStartFrame == Frame("message_start", -1, "-", NoneV, NoneV, <<>>)
TextBlockStartFrame(i) == Frame("content_block_start", i, "text", NoneV, NoneV, <<>>)
ToolBlockStartFrame(i, id, name) == Frame("content_block_start", i, "tool_use", id, name, <<>>)
TextDeltaFrame(i, text) == Frame("content_block_delta", i, "text_delta", NoneV, NoneV, text)
InputJsonDeltaFrame(i, fragment) ==
    Frame("content_block_delta", i, "input_json_delta", NoneV, NoneV, fragment)
BlockStopFrame(i) == Frame("content_block_stop", i, "-", NoneV, NoneV, <<>>)
MessageDeltaFrame(stop_reason) == Frame("message_delta", -1, stop_reason, NoneV, NoneV, <<>>)
MessageStopFrame == Frame("message_stop", -1, "-", NoneV, NoneV, <<>>)

-----------------------------------------------------------------------------
(* map_finish_reason *)

map_finish_reason(finish_reason, has_tool_calls) ==
    IF finish_reason = "tool_calls" \/ has_tool_calls THEN "tool_use"
    ELSE IF finish_reason = "length" THEN "max_tokens"
    ELSE "end_turn"

-----------------------------------------------------------------------------
(* AnthropicStreamWriter.  tool_states is a Python dict: a sequence of     *)
(* entries in insertion order, each with its key.                          *)

StreamWriterInit ==
    [started |-> FALSE, next_index |-> 0, text_index |-> -1,
     started_blocks |-> <<>>, tool_states |-> <<>>, finish_reason |-> NoneV,
     uuid_calls |-> 0, wfile |-> <<>>]

\* position of key k in the dict d, 0 when absent
DictPos(d, k) ==
    IF \E i \in 1..Len(d) : d[i].key = k
    THEN CHOOSE i \in 1..Len(d) : d[i].key = k
    ELSE 0

NewToolState(k) ==
    [key |-> k, id |-> NoneV, name |-> NoneV, content_index |-> -1,
     started |-> FALSE, pending_args |-> <<>>]

\* dict.setdefault(k, {...}) for tool_states
SetDefault(d, k) == IF DictPos(d, k) = 0 THEN Append(d, NewToolState(k)) ELSE d

_write_event(w, frame) == [w EXCEPT !.wfile = Append(@, frame)]

RECURSIVE WriteFragments(_, _, _)
\* for fragment in pending_args: self._write_event(content_block_delta ...)
WriteFragments(w, index, fragments) ==
    IF fragments = <<>> THEN w
    ELSE WriteFragments(_write_event(w, InputJsonDeltaFrame(index, Head(fragments))),
                        index, Tail(fragments))

_start_message(w) ==
    IF w.started THEN w
    ELSE _write_event([w EXCEPT !.started = TRUE], MessageStartFrame)

\* _start_text_block without self.started_blocks.append(self.text_index)
_start_text_block_unrecorded(w) ==
    IF w.text_index /= -1 THEN w
    ELSE _write_event(
            [w EXCEPT !.next_index = @ + 1,
                      !.text_index = w.next_index],
            TextBlockStartFrame(w.next_index))

_start_text_block(w) ==
    IF w.text_index /= -1 THEN w
    ELSE _write_event(
            [w EXCEPT !.next_index = @ + 1,
                      !.text_index = w.next_index,
                      !.started_blocks = Append(@, w.next_index)],
            TextBlockStartFrame(w.next_index))

\* handle_text_delta opening a block for every delta: _start_text_block's
\* early return on self.text_index is not None is lost
handle_text_delta_block_per_delta(w, text) ==
    IF text = TextNone THEN w
    ELSE LET w1 == _start_text_block([w EXCEPT !.text_index = -1])
         IN  _write_event(w1, TextDeltaFrame(w1.text_index, text))

handle_text_delta(w, text) ==
    IF text = TextNone THEN w
    ELSE LET w1 == _start_text_block(w)
         IN  _write_event(w1, TextDeltaFrame(w1.text_index, text))

_start_tool_block(w, tool_index, tool_id, name) ==
    LET p == DictPos(w.tool_states, tool_index)
    IN  IF p /= 0 /\ w.tool_states[p].content_index /= -1 THEN w
        ELSE LET d == SetDefault(w.tool_states, tool_index)
                 q == DictPos(d, tool_index)
             IN  _write_event(
                    [w EXCEPT !.next_index = @ + 1,
                              !.tool_states = [d EXCEPT ![q].content_index = w.next_index,
                                                        ![q].started = TRUE],
                              !.started_blocks = Append(@, w.next_index)],
                    ToolBlockStartFrame(w.next_index, tool_id, name))

\* RecordToolDelta with pending_args = [args_fragment] in place of
\* pending_args.append(args_fragment): a fragment buffered earlier is lost
RecordToolDelta_keeping_last(state, tool_call) ==
    [state EXCEPT
        !.id = IF tool_call.id /= NoneV THEN tool_call.id ELSE @,
        !.name = IF tool_call.name /= NoneV THEN tool_call.name ELSE @,
        !.pending_args = IF tool_call.arguments /= <<>>
                         THEN <<tool_call.arguments>> ELSE @]

\* the state of tool_index after handle_tool_delta has recorded the delta's
\* id, name and argument fragment (a falsy value records nothing)
RecordToolDelta(state, tool_call) ==
    [state EXCEPT
        !.id = IF tool_call.id /= NoneV THEN tool_call.id ELSE @,
        !.name = IF tool_call.name /= NoneV THEN tool_call.name ELSE @,
        !.pending_args = IF tool_call.arguments /= <<>>
                         THEN Append(@, tool_call.arguments) ELSE @]

\* handle_tool_delta without state["pending_args"] = [] after the block's
\* start: the fragments flushed there are written again by the next delta
handle_tool_delta_keeping_pending(w, tool_call) ==
    LET d0 == SetDefault(w.tool_states, tool_call.index)
        p == DictPos(d0, tool_call.index)
        state == RecordToolDelta(d0[p], tool_call)
        w0 == [w EXCEPT !.tool_states = [d0 EXCEPT ![p] = state]]
    IN  IF state.started
        THEN LET w1 == WriteFragments(w0, state.content_index, state.pending_args)
             IN  [w1 EXCEPT !.tool_states[p].pending_args = <<>>]
        ELSE IF state.name /= NoneV
        THEN LET fabricate == state.id = NoneV
                 tool_id == IF fabricate THEN FabricatedToolId(w0.uuid_calls + 1)
                            ELSE state.id
                 wu == IF fabricate THEN [w0 EXCEPT !.uuid_calls = @ + 1] ELSE w0
                 w1 == _start_tool_block(wu, tool_call.index, tool_id, state.name)
             IN  WriteFragments(w1, w1.tool_states[p].content_index, state.pending_args)
        ELSE w0

handle_tool_delta(w, tool_call) ==
    LET d0 == SetDefault(w.tool_states, tool_call.index)
        p == DictPos(d0, tool_call.index)
        state == RecordToolDelta(d0[p], tool_call)
        w0 == [w EXCEPT !.tool_states = [d0 EXCEPT ![p] = state]]
    IN  IF state.started
        THEN LET w1 == WriteFragments(w0, state.content_index, state.pending_args)
             IN  [w1 EXCEPT !.tool_states[p].pending_args = <<>>]
        ELSE IF state.name /= NoneV
        THEN LET fabricate == state.id = NoneV
                 tool_id == IF fabricate THEN FabricatedToolId(w0.uuid_calls + 1)
                            ELSE state.id
                 wu == IF fabricate THEN [w0 EXCEPT !.uuid_calls = @ + 1] ELSE w0
                 w1 == _start_tool_block(wu, tool_call.index, tool_id, state.name)
                 w2 == WriteFragments(w1, w1.tool_states[p].content_index,
                                      state.pending_args)
             IN  [w2 EXCEPT !.tool_states[p].pending_args = <<>>]
        ELSE w0

RECURSIVE FinalizeFrom(_, _)
\* finalize_pending_tools: the loop over list(self.tool_states.items()), from
\* entry p on
FinalizeFrom(w, p) ==
    IF p > Len(w.tool_states) THEN w
    ELSE LET state == w.tool_states[p]
         IN  IF state.started THEN FinalizeFrom(w, p + 1)
             ELSE IF state.name = NoneV /\ state.pending_args = <<>>
             THEN FinalizeFrom(w, p + 1)
             ELSE LET fabricate == state.id = NoneV
                      tool_id == IF fabricate THEN FabricatedToolId(w.uuid_calls + 1)
                                 ELSE state.id
                      name == IF state.name /= NoneV THEN state.name ELSE "tool"
                      wu == IF fabricate THEN [w EXCEPT !.uuid_calls = @ + 1] ELSE w
                      w1 == _start_tool_block(wu, state.key, tool_id, name)
                      w2 == WriteFragments(w1, w1.tool_states[p].content_index,
                                           state.pending_args)
                  IN  FinalizeFrom([w2 EXCEPT !.tool_states[p].pending_args = <<>>],
                                   p + 1)

finalize_pending_tools(w) == FinalizeFrom(w, 1)

RECURSIVE WriteStops(_, _)
\* for index in self.started_blocks: self._write_event(content_block_stop ...)
WriteStops(w, blocks) ==
    IF blocks = <<>> THEN w
    ELSE WriteStops(_write_event(w, BlockStopFrame(Head(blocks))), Tail(blocks))

\* finish writing message_delta before the content_block_stop frames
finish_delta_first(w) ==
    LET w1 == finalize_pending_tools(w)
        stop_reason == map_finish_reason(w1.finish_reason, w1.tool_states /= <<>>)
        w2 == _write_event(w1, MessageDeltaFrame(stop_reason))
        w3 == WriteStops(w2, w2.started_blocks)
    IN  _write_event(w3, MessageStopFrame)

finish(w) ==
    LET w1 == finalize_pending_tools(w)
        stop_reason == map_finish_reason(w1.finish_reason, w1.tool_states /= <<>>)
        w2 == WriteStops(w1, w1.started_blocks)
        w3 == _write_event(w2, MessageDeltaFrame(stop_reason))
    IN  _write_event(w3, MessageStopFrame)

-----------------------------------------------------------------------------
(* Upstream lines.  A text is a sequence of characters; TextNone is a JSON *)
(* null, or a missing member read with .get, where a text is expected.     *)

\* one entry of delta.tool_calls; arguments <<>> is a missing or empty string
ToolCall(index, id, name, arguments) ==
    [index |-> index, id |-> id, name |-> name, arguments |-> arguments]

\* a line that the loop skips: blank, not "data:", not JSON, or not a JSON object
SkippedLine == [kind |-> "skip"]

\* data: {"choices": [{"delta": {...}, "finish_reason": ...}]}
ChatChunk(has_content, content, tool_calls, finish_reason) ==
    [kind |-> "chunk", choices |-> TRUE, has_content |-> has_content,
     content |-> content, tool_calls |-> tool_calls, finish_reason |-> finish_reason]

\* data: {"choices": []}, e.g. the trailing usage chunk
ChunkWithoutChoices ==
    [kind |-> "chunk", choices |-> FALSE, has_content |-> FALSE,
     content |-> TextNone, tool_calls |-> <<>>, finish_reason |-> NoneV]

TextChunk(text) == ChatChunk(TRUE, text, <<>>, NoneV)
ToolChunk(tool_call) == ChatChunk(FALSE, TextNone, <<tool_call>>, NoneV)
FinishChunk(reason) == ChatChunk(FALSE, TextNone, <<>>, reason)

\* the upstream events of scenario S4, in its order
S4Events ==
    << TextChunk(<<"A">>),
       ToolChunk(ToolCall(0, "x", "f", <<"{", "\"">>)),
       ToolChunk(ToolCall(0, NoneV, NoneV, <<"k", "\"", ":", "1", "}">>)),
       TextChunk(<<"B">>),
       FinishChunk("tool_calls") >>

\* the chunks a Chat Completions upstream may send
ChatEvents ==
    { SkippedLine,
      ChunkWithoutChoices,
      TextChunk(TextNone),
      TextChunk(<<"A">>),
      TextChunk(<<"B">>),
      ToolChunk(ToolCall(0, "x", "f", <<"a">>)),
      ToolChunk(ToolCall(0, NoneV, NoneV, <<"b">>)),
      ToolChunk(ToolCall(0, NoneV, "f", <<>>)),
      ToolChunk(ToolCall(0, "x", NoneV, <<>>)),
      ToolChunk(ToolCall(1, "y", "g", <<"a">>)),
      ToolChunk(ToolCall(1, NoneV, NoneV, <<>>)),
      FinishChunk("stop"),
      FinishChunk("length"),
      FinishChunk("tool_calls"),
      ChatChunk(TRUE, <<"A">>, <<ToolCall(0, "x", "f", <<"a">>)>>, "tool_calls"),
      ChatChunk(FALSE, TextNone,
                <<ToolCall(0, "x", "f", <<>>), ToolCall(1, "y", "g", <<>>)>>, NoneV) }

\* Responses events: type, output_index, the item's or event's members
ResponsesEvent(type, index, item_type, call_id, id, name, text) ==
    [kind |-> type, index |-> index, item_type |-> item_type, call_id |-> call_id,
     id |-> id, name |-> name, text |-> text]

Created == ResponsesEvent("response.created", 0, "-", NoneV, NoneV, NoneV, <<>>)
OutputTextDelta(text) ==
    ResponsesEvent("response.output_text.delta", 0, "-", NoneV, NoneV, NoneV, text)
OutputTextDone(text) ==
    ResponsesEvent("response.output_text.done", 0, "-", NoneV, NoneV, NoneV, text)
OutputItemAdded(index, item_type, call_id, id, name, arguments) ==
    ResponsesEvent("response.output_item.added", index, item_type, call_id, id, name,
                   arguments)
ArgumentsDelta(index, delta) ==
    ResponsesEvent("response.function_call_arguments.delta", index, "-", NoneV, NoneV,
                   NoneV, delta)
ArgumentsDone(index, arguments) ==
    ResponsesEvent("response.function_call_arguments.done", index, "-", NoneV, NoneV,
                   NoneV, arguments)
\* response.completed / incomplete / failed; name carries incomplete_details.reason
Terminal(type, reason) == ResponsesEvent(type, 0, "-", NoneV, NoneV, reason, <<>>)

\* the events a Responses upstream may send
ResponsesEvents ==
    { SkippedLine,
      Created,
      OutputTextDelta(<<"A">>),
      OutputTextDelta(TextNone),
      OutputTextDone(<<"B">>),
      OutputItemAdded(0, "function_call", "x", "fc_x", "f", <<>>),
      OutputItemAdded(0, "function_call", NoneV, "y", NoneV, <<"a">>),
      OutputItemAdded(1, "function_call", NoneV, NoneV, "g", <<>>),
      OutputItemAdded(0, "message", NoneV, "m", NoneV, <<>>),
      ArgumentsDelta(0, <<"a">>),
      ArgumentsDelta(0, <<"b">>),
      ArgumentsDelta(1, <<>>),
      ArgumentsDone(0, <<"a", "b">>),
      ArgumentsDone(0, <<"b">>),
      ArgumentsDone(1, <<>>),
      Terminal("response.completed", NoneV),
      Terminal("response.incomplete", "max_output_tokens"),
      Terminal("response.incomplete", "content_filter") }

\* the output indices the upstream uses
ToolOrdinals == {0, 1}

-----------------------------------------------------------------------------
(* _handle_stream: one iteration of the loop over the upstream lines       *)

RECURSIVE HandleToolDeltas(_, _)
\* for tool_call in delta.get("tool_calls") or []: writer.handle_tool_delta(tool_call)
HandleToolDeltas(w, tool_calls) ==
    IF tool_calls = <<>> THEN w
    ELSE HandleToolDeltas(handle_tool_delta(w, Head(tool_calls)), Tail(tool_calls))

ChatIteration(w, ev) ==
    IF ev.kind = "skip" THEN w
    ELSE LET w1 == _start_message(w)
         IN  IF ~ev.choices THEN w1
             ELSE LET w2 == IF ev.has_content THEN handle_text_delta(w1, ev.content)
                            ELSE w1
                      w3 == HandleToolDeltas(w2, ev.tool_calls)
                  IN  IF ev.finish_reason /= NoneV
                      THEN [w3 EXCEPT !.finish_reason = ev.finish_reason]
                      ELSE w3

-----------------------------------------------------------------------------
(* _handle_responses_stream: one iteration of the loop.  The result is the *)
(* writer, the tool_args accumulator and whether the loop breaks.          *)

IterationResult(w, ta, brk) == [w |-> w, tool_args |-> ta, brk |-> brk]

ResponsesIteration(w, ta, ev) ==
    IF ev.kind = "skip" THEN IterationResult(w, ta, FALSE)
    ELSE IF ev.kind = "response.created"
    THEN IterationResult(_start_message(w), ta, FALSE)
    ELSE IF ev.kind \in {"response.output_text.delta", "response.output_text.done"}
    THEN IterationResult(handle_text_delta(_start_message(w), ev.text), ta, FALSE)
    ELSE IF ev.kind = "response.output_item.added"
    THEN IF ev.item_type /= "function_call" THEN IterationResult(w, ta, FALSE)
         ELSE LET fabricate == ev.call_id = NoneV /\ ev.id = NoneV
                  call_id == IF ev.call_id /= NoneV THEN ev.call_id
                             ELSE IF ev.id /= NoneV THEN ev.id
                             ELSE FabricatedToolId(w.uuid_calls + 1)
                  name == IF ev.name /= NoneV THEN ev.name ELSE "tool"
                  wu == IF fabricate THEN [w EXCEPT !.uuid_calls = @ + 1] ELSE w
              IN  IterationResult(
                      handle_tool_delta(_start_message(wu),
                                        ToolCall(ev.index, call_id, name, ev.text)),
                      [ta EXCEPT ![ev.index] = ev.text], FALSE)
    ELSE IF ev.kind = "response.function_call_arguments.delta"
    THEN IterationResult(
             handle_tool_delta(_start_message(w),
                               ToolCall(ev.index, NoneV, NoneV, ev.text)),
             [ta EXCEPT ![ev.index] = @ \o ev.text], FALSE)
    ELSE IF ev.kind = "response.function_call_arguments.done"
    THEN LET full == ev.text
             prev == ta[ev.index]
         IN  IF full /= <<>> /\ StartsWith(full, prev)
             THEN LET remaining == DropFirst(full, Len(prev))
                  IN  IterationResult(
                          IF remaining /= <<>>
                          THEN handle_tool_delta(w, ToolCall(ev.index, NoneV, NoneV,
                                                             remaining))
                          ELSE w,
                          [ta EXCEPT ![ev.index] = full], FALSE)
             ELSE IterationResult(w, ta, FALSE)
    ELSE \* response.completed, response.incomplete, response.failed
         LET w1 == _start_message(w)
         IN  IterationResult(
                 IF ev.name \in {"max_tokens", "max_output_tokens"}
                 THEN [w1 EXCEPT !.finish_reason = "length"]
                 ELSE w1,
                 ta, TRUE)

\* after the loop: if writer.started: writer.finish()
AfterLoop(w) == IF w.started THEN finish(w) ELSE w

-----------------------------------------------------------------------------
(* No POST is modelled: the values of do_POST's variables in the           *)
(* specifications of one streaming response.                               *)

NoRequest == [path |-> <<>>, body |-> "-", stream |-> FALSE, model |-> TextNone,
              x_api_key |-> TextNone, authorization |-> TextNone]

NoLocals == [stream |-> FALSE, requested_model |-> TextNone, use_responses |-> FALSE,
             api_key |-> TextNone]

NoEnviron == [OPENAI_API_KEY |-> TextNone, ANTHROPIC_AUTH_TOKEN |-> TextNone,
              MODEL_ROUTER_FORCE_RESPONSES |-> TextNone]

\* no translation function is being applied
NoCall == [fn |-> "-"]

\* a /health answer: reached says whether the request got a response
HealthResponse(reached, status, payload_status, capabilities) ==
    [reached |-> reached, status |-> status, payload_status |-> payload_status,
     capabilities |-> capabilities]

\* a proxy URL: scheme://host:port followed by path; port is -1 when the URL
\* names none
Url(scheme, host, port, url_path) ==
    [scheme |-> scheme, host |-> host, port |-> port, path |-> url_path]

NoUrl == Url("-", "-", 0, <<>>)

\* capabilities of a /health payload; is_dict is FALSE when the member is
\* absent or not an object
Capabilities(is_dict, supports_responses, retry_on_not_chat_model) ==
    [is_dict |-> is_dict, supports_responses |-> supports_responses,
     retry_on_not_chat_model |-> retry_on_not_chat_model]

NoProbe ==
    [url |-> NoUrl,
     response |-> HealthResponse(FALSE, 0, "-", Capabilities(FALSE, FALSE, FALSE))]

NoReturn == [status |-> "-", url |-> NoUrl]

NoSup == [lazy_annotations |-> FALSE, proxy_url |-> NoUrl, force_restart |-> FALSE,
          phase |-> "-", target |-> NoUrl, k |-> 0, attempts |-> 0]

\* a machine: nt is os.name == "nt"; proxies are the pids list_proxy_processes
\* finds; listening are the pids netstat shows on the port; denied are the
\* pids whose kill raises
HostOs(nt, proxies, listening, denied) ==
    [nt |-> nt, proxies |-> proxies, listening |-> listening, denied |-> denied]

NoHostOs == HostOs(FALSE, {}, {}, {})

\* nothing done yet: abandoned says that the wait for a child spawned by
\* this call has timed out, answerer who answered the probe that ended the
\* call
NoHistory ==
    [terminated |-> FALSE, signalled |-> {}, killed |-> {}, starts |-> <<>>,
     first_probe |-> NoProbe, abandoned |-> FALSE, answerer |-> "-"]

\* ensure_proxy_running is not being called
SupervisorOff ==
    /\ sup_pc = "off"
    /\ sup = NoSup
    /\ last_probe = NoProbe
    /\ ret = NoReturn
    /\ host_os = NoHostOs
    /\ history = NoHistory

PostOff ==
    /\ call = NoCall
    /\ SupervisorOff
    /\ environ = NoEnviron
    /\ post_pc = "off"
    /\ request = NoRequest
    /\ locals = NoLocals
    /\ calls = <<>>
    /\ replies = <<>>

-----------------------------------------------------------------------------
(* The stream handlers as a state machine                                  *)

UpstreamLines ==
    IF upstream = "s4" THEN {S4Events[i] : i \in 1..Len(S4Events)}
    ELSE IF path = "chat" THEN ChatEvents
    ELSE ResponsesEvents

LineLimit == IF upstream = "s4" THEN MaxS4Events ELSE MaxEvents

InitStreamOn(u, paths) ==
    /\ upstream = u
    /\ path \in paths
    /\ pc = "read"
    /\ events = <<>>
    /\ writer = StreamWriterInit
    /\ tool_args = [i \in ToolOrdinals |-> <<>>]
    /\ PostOff

\* Written with _write_event swallowing the failed write: the frame is lost
\* and the frames after it are still written
Written_skipping_frame(w, next_pc) ==
    \/ /\ writer' = w
       /\ pc' = next_pc
    \/ \E cut \in Len(writer.wfile) .. (Len(w.wfile) - 1) :
          /\ writer' = [StreamWriterInit EXCEPT
                            !.wfile = SubSeq(w.wfile, 1, cut)
                                      \o SubSeq(w.wfile, cut + 2, Len(w.wfile))]
          /\ pc' = "broken"

\* The handler went from writer to w.  Either every write succeeded, or the
\* client was gone at one of them: _write_event raised when it wrote frame
\* number cut + 1, the frames before it are on the wire, and the handler
\* returned, dropping the writer.
Written(w, next_pc) ==
    \/ /\ writer' = w
       /\ pc' = next_pc
    \/ \E cut \in Len(writer.wfile) .. (Len(w.wfile) - 1) :
          /\ writer' = [StreamWriterInit EXCEPT !.wfile = SubSeq(w.wfile, 1, cut)]
          /\ pc' = "broken"

\* _handle_stream reads one more line of the upstream response
ChatLine ==
    /\ pc = "read"
    /\ path = "chat"
    /\ Len(events) < LineLimit
    /\ \E ev \in UpstreamLines :
          /\ events' = Append(events, ev)
          /\ Written(ChatIteration(writer, ev), "read")
    /\ UNCHANGED <<upstream, path, tool_args, postVars, call, supVars>>

\* _handle_responses_stream reads one more line; a terminal event breaks
\* the loop and the handler finishes the response
ResponsesLine ==
    /\ pc = "read"
    /\ path = "responses"
    /\ Len(events) < LineLimit
    /\ \E ev \in UpstreamLines :
          LET r == ResponsesIteration(writer, tool_args, ev)
          IN  /\ events' = Append(events, ev)
              /\ tool_args' = r.tool_args
              /\ IF r.brk THEN Written(AfterLoop(r.w), "done")
                 ELSE Written(r.w, "read")
    /\ UNCHANGED <<upstream, path, postVars, call, supVars>>

\* the line is "data: [DONE]", or the upstream response ends
EndOfStream ==
    /\ pc = "read"
    /\ Written(AfterLoop(writer), "done")
    /\ UNCHANGED <<upstream, path, events, tool_args, postVars, call, supVars>>

\* reading the next line raises (connection reset, timeout): neither handler
\* catches it
UpstreamReadFails ==
    /\ pc = "read"
    /\ pc' = "crashed"
    /\ UNCHANGED <<upstream, path, events, writer, tool_args, postVars, call, supVars>>

InitStream == InitStreamOn("any", {"chat", "responses"})

NextStream == ChatLine \/ ResponsesLine \/ EndOfStream \/ UpstreamReadFails

SpecStream == InitStream /\ [][NextStream]_vars

InitS4 == InitStreamOn("s4", {"chat"})

NextS4 == ChatLine \/ EndOfStream \/ UpstreamReadFails

SpecS4 == InitS4 /\ [][NextS4]_vars

-----------------------------------------------------------------------------
(* Pure helpers of the request path                                        *)

\* an HTTP body as upstream sends it, and the JSON value it parses to:
\* kind is "empty", "text" (not JSON), "json_null", "json_list" or "object";
\* for an object, error is "absent" (missing or null), "string" or "object",
\* error_text is the string (or the object's message, <<>> when it has none),
\* message is the top-level message (<<>> when it has none).  A text is a
\* sequence of phrases.
Body(kind, error, error_text, message) ==
    [kind |-> kind, error |-> error, error_text |-> error_text, message |-> message]

PlainBody(kind) == Body(kind, "absent", <<>>, <<>>)

\* Python's None as a parsed payload
JsonNull == PlainBody("json_null")

\* json.loads of the body, None on JSONDecodeError
safe_json_loads(body) ==
    IF body.kind \in {"empty", "text"} THEN JsonNull ELSE body

\* isinstance(payload, dict)
IsDict(payload) == payload.kind = "object"

\* is_not_chat_model_error without message.lower()
is_not_chat_model_error_case_sensitive(payload) ==
    IF ~IsDict(payload) THEN FALSE
    ELSE LET message == IF payload.error = "object" THEN payload.error_text
                        ELSE IF payload.error /= "absent" THEN payload.error_text
                        ELSE payload.message
             msg == message
         IN  IF Contains(msg, <<"not a chat model">>)
                  /\ Contains(msg, <<"chat/completions">>)
             THEN TRUE
             ELSE Contains(msg, <<"v1/", "chat/completions">>)

\* is_not_chat_model_error taking every JSON object for the error
is_not_chat_model_error_any_object(payload) == IsDict(payload)

is_not_chat_model_error(payload) ==
    IF ~IsDict(payload) THEN FALSE
    ELSE LET message == IF payload.error = "object" THEN payload.error_text
                        ELSE IF payload.error /= "absent" THEN payload.error_text
                        ELSE payload.message
             msg == Lower(message)
         IN  IF Contains(msg, <<"not a chat model">>)
                  /\ Contains(msg, <<"chat/completions">>)
             THEN TRUE
             ELSE Contains(msg, <<"v1/", "chat/completions">>)

\* os.environ.get(name, "")
EnvironGet(name) == IF environ[name] = TextNone THEN <<>> ELSE environ[name]

TruthyTokens == { <<"1">>, <<"t", "r", "u", "e">>, <<"y", "e", "s">>, <<"o", "n">> }

should_use_responses(model) ==
    IF model = TextNone \/ model = <<>> THEN FALSE
    ELSE LET stripped == Strip(model)
             m == Lower(stripped)
         IN  IF stripped = <<>> THEN FALSE
             ELSE IF StartsWith(m, <<"g", "p", "t", "-", "5">>) \/ StartsWith(m, <<"o">>)
             THEN TRUE
             ELSE IF Contains(m, <<"c", "o", "d", "e", "x">>) THEN TRUE
             ELSE IF Strip(EnvironGet("MODEL_ROUTER_FORCE_RESPONSES")) \in TruthyTokens
             THEN TRUE
             ELSE FALSE

\* a header or variable that is set and not empty
Truthy(value) == value /= TextNone /\ value /= <<>>

RECURSIVE AfterFirstWord(_)
\* what follows the first word of s
AfterFirstWord(s) ==
    IF s = <<>> \/ Head(s) \in Whitespace THEN s ELSE AfterFirstWord(Tail(s))

\* auth.split(None, 1): the words of auth, at most two
SplitOnce(auth) ==
    LET s == LStrip(auth)
        rest == RStrip(LStrip(AfterFirstWord(s)))
    IN  IF s = <<>> THEN <<>>
        ELSE IF rest = <<>> THEN <<RStrip(s)>>
        ELSE <<SubSeq(s, 1, Len(s) - Len(AfterFirstWord(s))), LStrip(AfterFirstWord(s))>>

IsBearer(auth) == Truthy(auth) /\ StartsWith(Lower(auth), <<"bearer", " ">>)

\* extract_api_key raises IndexError: auth.split(None, 1)[1] with one word
extract_api_key_raises(headers) ==
    /\ ~Truthy(headers.x_api_key)
    /\ IsBearer(headers.authorization)
    /\ Len(SplitOnce(headers.authorization)) < 2

extract_api_key(headers) ==
    IF Truthy(headers.x_api_key) THEN Strip(headers.x_api_key)
    ELSE IF IsBearer(headers.authorization)
    THEN Strip(SplitOnce(headers.authorization)[2])
    ELSE IF Truthy(environ.OPENAI_API_KEY) THEN environ.OPENAI_API_KEY
    ELSE environ.ANTHROPIC_AUTH_TOKEN

-----------------------------------------------------------------------------
(* Inputs of do_POST: requests, process environments, upstream outcomes    *)

Environ(openai_api_key, anthropic_auth_token, force_responses) ==
    [OPENAI_API_KEY |-> openai_api_key, ANTHROPIC_AUTH_TOKEN |-> anthropic_auth_token,
     MODEL_ROUTER_FORCE_RESPONSES |-> force_responses]

PostEnvirons ==
    { Environ(TextNone, TextNone, TextNone),
      Environ(<<"k", "3">>, TextNone, TextNone),
      Environ(TextNone, <<"k", "4">>, <<"1">>) }

\* request paths, cut at the slashes
PostPaths ==
    { <<"/", "messages">>,
      <<"/", "v1", "/", "messages">>,
      <<"/", "api", "/", "messages">>,
      <<"/", "v1", "/", "complete">> }

PostModels ==
    { TextNone,
      <<"g", "p", "t", "-", "4", "o">>,
      <<"G", "P", "T", "-", "5">> }

\* the x-api-key and Authorization headers of a request
PostCredentials ==
    { <<TextNone, TextNone>>,
      <<<<"k", "1">>, <<"Bearer", " ", "k", "2">>>>,
      <<TextNone, <<"Bearer", " ", "k", "2">>>>,
      <<TextNone, <<"Bearer", " ">>>> }

Request(p, body, stream, model, creds) ==
    [path |-> p, body |-> body, stream |-> stream, model |-> model,
     x_api_key |-> creds[1], authorization |-> creds[2]]

\* body is "empty", "not_json", "json_list" or "object"; only an object has
\* members
Requests ==
    { Request(p, "object", stream, model, creds) :
        p \in PostPaths, stream \in BOOLEAN, model \in PostModels,
        creds \in PostCredentials }
    \cup
    { Request(p, body, FALSE, TextNone, creds) :
        p \in PostPaths, body \in {"empty", "not_json", "json_list"},
        creds \in PostCredentials }

S3Message ==
    <<"This model is ", "not a chat model", " and thus not supported in the ",
      "v1/", "chat/completions", " endpoint">>
BothMessage == <<"not a chat model", "; use /", "chat/completions">>
UpperMessage == <<"NOT A CHAT MODEL", " - /", "Chat/Completions">>
V1Message == <<"unknown url /", "V1/", "chat/completions">>
NotChatOnlyMessage == <<"this is ", "not a chat model">>
EndpointOnlyMessage == <<"use /", "chat/completions">>
OtherMessage == <<"rate limit exceeded">>

ErrorMessages ==
    { S3Message, BothMessage, UpperMessage, V1Message, NotChatOnlyMessage,
      EndpointOnlyMessage, OtherMessage }

\* the bodies of an upstream HTTP error
ErrorBodies ==
    { PlainBody("empty"), PlainBody("text"), JsonNull, PlainBody("json_list"),
      PlainBody("object") }
    \cup { Body("object", "object", m, <<>>) : m \in ErrorMessages }
    \cup { Body("object", "object", OtherMessage, BothMessage),
           Body("object", "object", <<>>, S3Message),
           Body("object", "absent", <<>>, BothMessage),
           Body("object", "absent", <<>>, OtherMessage),
           Body("object", "string", S3Message, <<>>),
           Body("object", "string", OtherMessage, V1Message) }

\* the bodies of an HTTP error of the retry
RetryErrorBodies ==
    { PlainBody("empty"), PlainBody("text"), JsonNull, PlainBody("json_list"),
      Body("object", "object", S3Message, <<>>),
      Body("object", "object", OtherMessage, <<>>) }

ErrorStatuses == {400, 503}

\* what urlopen and the reading of the response do: kind is "url_error",
\* "http_error" or "ok"; stream_end says how a streamed response ends
\* ("completed", "client_gone", "read_error")
Outcome(kind, status, body, stream_end) ==
    [kind |-> kind, status |-> status, body |-> body, stream_end |-> stream_end]

NoBody == PlainBody("-")

OkOutcomes(stream) ==
    IF stream
    THEN { Outcome("ok", 200, NoBody, e) : e \in {"completed", "client_gone", "read_error"} }
    ELSE { Outcome("ok", 200, b, "-") :
             b \in {PlainBody("object"), PlainBody("text"), PlainBody("json_list")} }

Outcomes(stream, bodies) ==
    { Outcome("url_error", 0, NoBody, "-") }
    \cup { Outcome("http_error", code, b, "-") : code \in ErrorStatuses, b \in bodies }
    \cup OkOutcomes(stream)

-----------------------------------------------------------------------------
(* ProxyHandler.do_POST                                                    *)

\* a response sent to the client: what names the payload, via the translator
\* of an Anthropic message, body the upstream body it carries
Reply(status, content_type, what, via, body) ==
    [status |-> status, content_type |-> content_type, what |-> what, via |-> via,
     body |-> body]

_send_json(status, what, via, body) == Reply(status, "application/json", what, via, body)

_send_text(status, what, body) == Reply(status, "text/plain", what, "-", body)

\* path.endswith("/messages") or path.endswith("/v1/messages")
IsMessagesPath(p) ==
    EndsWith(p, <<"/", "messages">>) \/ EndsWith(p, <<"/", "v1", "/", "messages">>)

\* do_POST without isinstance(payload, dict): any parsed payload goes on
BodyIsDict_any_parsed(req) == req.body /= "not_json"

\* the request body parses to a dict: b"" is read as "{}"
BodyIsDict(req) == req.body \in {"empty", "object"}

PostInit ==
    /\ environ \in PostEnvirons
    /\ post_pc = "idle"
    /\ request = NoRequest
    /\ locals = NoLocals
    /\ calls = <<>>
    /\ replies = <<>>

\* do_POST up to the first upstream call
ReceiveRequest ==
    /\ post_pc = "idle"
    /\ \E req \in Requests :
          /\ request' = req
          /\ IF ~IsMessagesPath(req.path)
             THEN /\ replies' = <<_send_text(404, "Not Found", NoBody)>>
                  /\ post_pc' = "done"
                  /\ locals' = locals
             ELSE IF ~BodyIsDict(req)
             THEN /\ replies' = <<_send_json(400, "invalid_request", "-", NoBody)>>
                  /\ post_pc' = "done"
                  /\ locals' = locals
             ELSE IF extract_api_key_raises(req)
             THEN /\ replies' = replies
                  /\ post_pc' = "crashed"
                  /\ locals' = locals
             ELSE IF ~Truthy(extract_api_key(req))
             THEN /\ replies' = <<_send_json(401, "auth_error", "-", NoBody)>>
                  /\ post_pc' = "done"
                  /\ locals' = locals
             ELSE /\ replies' = replies
                  /\ post_pc' = "dispatch"
                  /\ locals' = [stream |-> req.stream, requested_model |-> req.model,
                                use_responses |-> should_use_responses(req.model),
                                api_key |-> extract_api_key(req)]
    /\ UNCHANGED <<environ, calls, streamVars, call, supVars>>

UpstreamCall(use_responses, outcome) ==
    [endpoint |-> IF use_responses THEN "v1/responses" ELSE "v1/chat/completions",
     stream |-> locals.stream, api_key |-> locals.api_key, outcome |-> outcome]

\* _send_upstream once urlopen has returned a response
Served(use_responses, outcome) ==
    LET via == IF use_responses THEN "responses" ELSE "chat"
        parsed == safe_json_loads(outcome.body)
        upstream_payload == IF parsed = JsonNull THEN PlainBody("object") ELSE parsed
    IN  IF locals.stream
        THEN /\ replies' = Append(replies, Reply(200, "text/event-stream", "event_stream",
                                                 via, NoBody))
             /\ post_pc' = IF outcome.stream_end = "read_error" THEN "crashed" ELSE "done"
        ELSE IF ~IsDict(upstream_payload)
        THEN /\ replies' = replies
             /\ post_pc' = "crashed"
        ELSE /\ replies' = Append(replies, _send_json(outcome.status, "anthropic_message",
                                                      via, upstream_payload))
             /\ post_pc' = "done"

\* the except clauses answering 502 in place of exc.code
Forwarded_as_bad_gateway(outcome) ==
    LET payload == safe_json_loads(outcome.body)
    IN  IF payload = JsonNull
        THEN IF outcome.body.kind = "empty"
             THEN _send_text(502, "Upstream error", NoBody)
             ELSE _send_text(502, "upstream_body", outcome.body)
        ELSE _send_json(502, "upstream_body", "-", payload)

\* the except clauses that forward an upstream HTTP error
Forwarded(outcome) ==
    LET payload == safe_json_loads(outcome.body)
    IN  IF payload = JsonNull
        THEN IF outcome.body.kind = "empty"
             THEN _send_text(outcome.status, "Upstream error", NoBody)
             ELSE _send_text(outcome.status, "upstream_body", outcome.body)
        ELSE _send_json(outcome.status, "upstream_body", "-", payload)

\* _send_upstream(use_responses) and the except clauses of the outer try
FirstCall ==
    /\ post_pc = "dispatch"
    /\ \E outcome \in Outcomes(locals.stream, ErrorBodies) :
          /\ calls' = Append(calls, UpstreamCall(locals.use_responses, outcome))
          /\ IF outcome.kind = "ok" THEN Served(locals.use_responses, outcome)
             ELSE IF outcome.kind = "http_error"
             THEN IF ~locals.use_responses
                       /\ is_not_chat_model_error(safe_json_loads(outcome.body))
                  THEN /\ replies' = replies
                       /\ post_pc' = "retry"
                  ELSE /\ replies' = Append(replies, Forwarded(outcome))
                       /\ post_pc' = "done"
             ELSE /\ replies' = Append(replies, _send_json(502, "upstream_error", "-",
                                                           NoBody))
                  /\ post_pc' = "done"
    /\ UNCHANGED <<environ, request, locals, streamVars, call, supVars>>

\* _send_upstream(True) inside the except clause, and its own except clause;
\* a URLError of the retry is raised inside an except clause and caught by none
RetryCall ==
    /\ post_pc = "retry"
    /\ \E outcome \in Outcomes(locals.stream, RetryErrorBodies) :
          /\ calls' = Append(calls, UpstreamCall(TRUE, outcome))
          /\ IF outcome.kind = "ok" THEN Served(TRUE, outcome)
             ELSE IF outcome.kind = "http_error"
             THEN /\ replies' = Append(replies, Forwarded(outcome))
                  /\ post_pc' = "done"
             ELSE /\ replies' = replies
                  /\ post_pc' = "crashed"
    /\ UNCHANGED <<environ, request, locals, streamVars, call, supVars>>

StreamOff ==
    /\ call = NoCall
    /\ SupervisorOff
    /\ upstream = "-"
    /\ path = "-"
    /\ pc = "off"
    /\ events = <<>>
    /\ writer = StreamWriterInit
    /\ tool_args = [i \in ToolOrdinals |-> <<>>]

InitPost == PostInit /\ StreamOff

NextPost == ReceiveRequest \/ FirstCall \/ RetryCall

SpecPost == InitPost /\ [][NextPost]_vars

-----------------------------------------------------------------------------
(* should_use_responses applied to one model name in one environment       *)

\* model names: None, empty, blank, and names in either case, some padded
RouteModels ==
    { TextNone, <<>>, <<" ">>,
      <<"g", "p", "t", "-", "5">>,
      <<" ", "G", "P", "T", "-", "5", ".", "2", "-", "c", "o", "d", "e", "x", " ">>,
      <<"o", "3", "-", "m", "i", "n", "i">>,
      <<"O", "1">>,
      <<"m", "y", "-", "C", "o", "d", "e", "x", "-", "x">>,
      <<"c", "l", "a", "u", "d", "e", "-", "3">>,
      <<"k", "i", "m", "i", "-", "k", "2", ".", "5">>,
      <<"m", "o", "o", "n", "s", "h", "o", "t", "-", "v", "1">>,
      <<"g", "p", "t", "-", "4", "o">>,
      <<" ", "o", "3">> }

\* values of MODEL_ROUTER_FORCE_RESPONSES: unset, empty, tokens, other
RouteFlags ==
    { TextNone, <<>>, <<"1">>, <<"t", "r", "u", "e">>, <<" ", "y", "e", "s", " ">>,
      <<"o", "n">>, <<"0">>, <<"T", "R", "U", "E">> }

\* no request is being handled
HandlersOff ==
    /\ post_pc = "off"
    /\ request = NoRequest
    /\ locals = NoLocals
    /\ calls = <<>>
    /\ replies = <<>>
    /\ upstream = "-"
    /\ path = "-"
    /\ pc = "off"
    /\ events = <<>>
    /\ writer = StreamWriterInit
    /\ tool_args = [o \in ToolOrdinals |-> <<>>]
    /\ SupervisorOff

InitRoute ==
    /\ \E flag \in RouteFlags : environ = Environ(TextNone, TextNone, flag)
    /\ \E model \in RouteModels :
          call = [fn |-> "should_use_responses", model |-> model, done |-> FALSE,
                  result |-> FALSE]
    /\ HandlersOff

\* use_responses = should_use_responses(requested_model)
ApplyShouldUseResponses ==
    /\ call.fn = "should_use_responses"
    /\ ~call.done
    /\ call' = [call EXCEPT !.done = TRUE, !.result = should_use_responses(call.model)]
    /\ UNCHANGED <<streamVars, postVars, supVars>>

NextRoute == ApplyShouldUseResponses

SpecRoute == InitRoute /\ [][NextRoute]_vars

-----------------------------------------------------------------------------
(* build_upstream_url.  A URL is cut at its slashes: "http://h/v1/" is     *)
(* <<"http:", "/", "/", "h", "/", "v1", "/">>.                             *)

RECURSIVE RStripSlashes(_)
\* base.rstrip("/")
RStripSlashes(s) ==
    IF s /= <<>> /\ s[Len(s)] = "/" THEN RStripSlashes(SubSeq(s, 1, Len(s) - 1)) ELSE s

RECURSIVE LStripSlashes(_)
\* endpoint.lstrip("/")
LStripSlashes(s) == IF s /= <<>> /\ Head(s) = "/" THEN LStripSlashes(Tail(s)) ELSE s

build_upstream_url(base0, endpoint0) ==
    LET base == RStripSlashes(base0)
        stripped == LStripSlashes(IF endpoint0 = TextNone THEN <<>> ELSE endpoint0)
        endpoint == IF stripped = <<>> THEN <<"v1", "/", "chat", "/", "completions">>
                    ELSE stripped
    IN  IF EndsWith(base, <<"/", "v1">>)
        THEN base \o <<"/">> \o (IF StartsWith(endpoint, <<"v1", "/">>)
                                 THEN DropFirst(endpoint, 2) ELSE endpoint)
        ELSE IF StartsWith(endpoint, <<"v1", "/">>)
        THEN base \o <<"/">> \o endpoint
        ELSE base \o <<"/", "v1", "/">> \o endpoint

\* host names of an upstream base URL
UrlHosts == { "api.openai.com", "localhost:8080", "v1" }

\* paths of an upstream base URL
UrlPaths ==
    { <<>>, <<"/">>, <<"/", "v1">>, <<"/", "v1", "/">>, <<"/", "v1", "/", "/">>,
      <<"/", "openai">>, <<"/", "openai", "/", "v1">>,
      <<"/", "v1", "/", "acct", "/", "openai">>, <<"/", "V1">>,
      <<"/", "v1beta", "/", "openai", "/">> }

UrlBases == { <<"https:", "/", "/", host>> \o p : host \in UrlHosts, p \in UrlPaths }

\* the endpoints _send_upstream passes
UpstreamEndpoints ==
    { <<"v1", "/", "chat", "/", "completions">>, <<"v1", "/", "responses">> }

UrlEndpoints ==
    UpstreamEndpoints \cup { <<>>, TextNone, <<"/", "v1", "/", "responses">>,
                             <<"chat", "/", "completions">> }

InitUrl ==
    /\ \E base \in UrlBases, endpoint \in UrlEndpoints :
          call = [fn |-> "build_upstream_url", base |-> base, endpoint |-> endpoint,
                  done |-> FALSE, result |-> <<>>]
    /\ environ = NoEnviron
    /\ HandlersOff

\* upstream_url = build_upstream_url(self.server.upstream_base, endpoint)
ApplyBuildUpstreamUrl ==
    /\ call.fn = "build_upstream_url"
    /\ ~call.done
    /\ call' = [call EXCEPT !.done = TRUE,
                            !.result = build_upstream_url(call.base, call.endpoint)]
    /\ UNCHANGED <<streamVars, postVars, supVars>>

NextUrl == ApplyBuildUpstreamUrl

SpecUrl == InitUrl /\ [][NextUrl]_vars

-----------------------------------------------------------------------------
(* openai_to_anthropic: a Chat Completions response as an Anthropic message *)

\* a content block of an Anthropic message
TextBlock(text) ==
    [type |-> "text", text |-> text, id |-> NoneV, name |-> NoneV, input |-> "-"]

ToolUseBlock(id, name, input) ==
    [type |-> "tool_use", text |-> <<>>, id |-> id, name |-> name, input |-> input]

\* json.loads(args_raw) if args_raw else {}, {"_raw": args_raw} on
\* JSONDecodeError; arguments is "" (also for None), "json" or "not_json"
ParsedArguments(arguments) ==
    IF arguments = "" THEN "{}"
    ELSE IF arguments = "json" THEN "parsed"
    ELSE "_raw"

\* an entry of message.tool_calls
OpenAiToolCall(id, name, arguments) == [id |-> id, name |-> name, arguments |-> arguments]

\* message.content: kind is "none", "str" or "list"; parts are the entries
\* of a list
MessageContent(kind, text, parts) == [kind |-> kind, text |-> text, parts |-> parts]

ContentPart(type, text) == [type |-> type, text |-> text]

RECURSIVE JoinTextParts(_)
\* "".join(part.get("text", "") for part in text_content if part.get("type") == "text")
JoinTextParts(parts) ==
    IF parts = <<>> THEN <<>>
    ELSE (IF Head(parts).type = "text" THEN Head(parts).text ELSE <<>>)
             \o JoinTextParts(Tail(parts))

RECURSIVE ToolUseBlocks(_, _)
\* the loop over tool_calls; n counts the uuid4 values drawn before it
ToolUseBlocks(tool_calls, n) ==
    IF tool_calls = <<>> THEN <<>>
    ELSE LET tc == Head(tool_calls)
             fabricate == tc.id = NoneV
             tool_id == IF fabricate THEN FabricatedToolId(n + 1) ELSE tc.id
             name == IF tc.name /= NoneV THEN tc.name ELSE "tool"
         IN  <<ToolUseBlock(tool_id, name, ParsedArguments(tc.arguments))>>
                 \o ToolUseBlocks(Tail(tool_calls), IF fabricate THEN n + 1 ELSE n)

openai_message_to_blocks(message) ==
    LET text_content == IF message.content.kind = "list"
                        THEN JoinTextParts(message.content.parts)
                        ELSE IF message.content.kind = "str" THEN message.content.text
                        ELSE <<>>
        text_blocks == IF text_content /= <<>> THEN <<TextBlock(text_content)>> ELSE <<>>
    IN  [blocks |-> text_blocks \o ToolUseBlocks(message.tool_calls, 0),
         has_tool_calls |-> message.tool_calls /= <<>>]

\* choice.get("message") or {}
NoMessage == [content |-> MessageContent("none", <<>>, <<>>), tool_calls |-> <<>>]

\* a Chat Completions response: has_choice says whether choices holds a choice
ChatResponse(has_choice, message, finish_reason) ==
    [has_choice |-> has_choice, message |-> message, finish_reason |-> finish_reason]

openai_to_anthropic(payload) ==
    LET message == IF payload.has_choice THEN payload.message ELSE NoMessage
        finish_reason == IF payload.has_choice THEN payload.finish_reason ELSE NoneV
        converted == openai_message_to_blocks(message)
    IN  [type |-> "message", role |-> "assistant", content |-> converted.blocks,
         stop_reason |-> map_finish_reason(finish_reason, converted.has_tool_calls)]

ReplyContents ==
    { MessageContent("none", <<>>, <<>>),
      MessageContent("str", <<>>, <<>>),
      MessageContent("str", <<"h", "i">>, <<>>),
      MessageContent("list", <<>>, <<ContentPart("text", <<"h">>),
                                     ContentPart("refusal", <<"n", "o">>),
                                     ContentPart("text", <<"i">>)>>) }

ReplyToolCalls ==
    { <<>>,
      <<OpenAiToolCall("x", "f", "json")>>,
      <<OpenAiToolCall("x", "f", "not_json"), OpenAiToolCall("y", "g", "")>>,
      <<OpenAiToolCall(NoneV, NoneV, ""), OpenAiToolCall(NoneV, "g", "json")>> }

ReplyFinishReasons == { NoneV, "stop", "length", "tool_calls", "content_filter" }

ChatResponses ==
    { ChatResponse(TRUE, [content |-> c, tool_calls |-> t], r) :
        c \in ReplyContents, t \in ReplyToolCalls, r \in ReplyFinishReasons }
    \cup { ChatResponse(FALSE, NoMessage, NoneV) }

\* the result of a translation that has not been applied yet
NoMessageYet == [type |-> "-", role |-> "-", content |-> <<>>, stop_reason |-> "-"]

InitChatReply ==
    /\ \E payload \in ChatResponses :
          call = [fn |-> "openai_to_anthropic", payload |-> payload, done |-> FALSE,
                  result |-> NoMessageYet]
    /\ environ = NoEnviron
    /\ HandlersOff

\* self._send_json(response.status, openai_to_anthropic(upstream_payload))
ApplyOpenAiToAnthropic ==
    /\ call.fn = "openai_to_anthropic"
    /\ ~call.done
    /\ call' = [call EXCEPT !.done = TRUE, !.result = openai_to_anthropic(call.payload)]
    /\ UNCHANGED <<streamVars, postVars, supVars>>

NextChatReply == ApplyOpenAiToAnthropic

SpecChatReply == InitChatReply /\ [][NextChatReply]_vars

-----------------------------------------------------------------------------
(* anthropic_to_openai: an Anthropic request as a Chat Completions request *)

\* a content block of a request message: text is the text of a text block
\* or the content of a tool_result; id is tool_use.id or
\* tool_result.tool_use_id; input is "str" (an input that is a string),
\* "object" or "-"
Block(type, text, id, name, input, is_error) ==
    [type |-> type, text |-> text, id |-> id, name |-> name, input |-> input,
     is_error |-> is_error]

TextIn(text) == Block("text", text, NoneV, NoneV, "-", FALSE)
ToolUseIn(id, name, input) == Block("tool_use", <<>>, id, name, input, FALSE)
ToolResultIn(tool_use_id, text, is_error) ==
    Block("tool_result", text, tool_use_id, NoneV, "-", is_error)
ImageIn == Block("image", <<>>, NoneV, NoneV, "-", FALSE)
ThinkingIn == Block("thinking", <<"t">>, NoneV, NoneV, "-", FALSE)

\* a request message: content is a MessageContent whose parts are blocks
Message(role, content) == [role |-> role, content |-> content]

\* coerce_text for None and for a string
coerce_text(text) == IF text = TextNone THEN <<>> ELSE text

\* a Chat Completions message; tool_calls is <<>> when the key is absent
ChatMessage(role, content, tool_calls, tool_call_id) ==
    [role |-> role, content |-> content, tool_calls |-> tool_calls,
     tool_call_id |-> tool_call_id]

\* map_tool_use; n counts the uuid4 values drawn before it.  arguments is
\* the input itself when it is a string and json.dumps of it otherwise
map_tool_use(block, n) ==
    [id |-> IF block.id /= NoneV THEN block.id ELSE FabricatedToolId(n + 1),
     type |-> "function",
     name |-> IF block.name /= NoneV THEN block.name ELSE "tool",
     arguments |-> IF block.input = "str" THEN "input" ELSE "json.dumps(input)"]

map_tool_result(block) ==
    ChatMessage("tool", IF block.is_error
                        THEN <<"[tool_error] ">> \o coerce_text(block.text)
                        ELSE coerce_text(block.text),
                <<>>, IF block.id /= NoneV THEN block.id ELSE "tool_unknown")

RECURSIVE TextParts(_)
\* "".join(text_parts) after the loop over the blocks
TextParts(blocks) ==
    IF blocks = <<>> THEN <<>>
    ELSE LET block == Head(blocks)
         IN  (IF block.type = "text" THEN block.text
              ELSE IF block.type \in {"tool_use", "tool_result"} THEN <<>>
              ELSE IF block.type = "image" THEN <<"[image omitted]">>
              ELSE <<"[unsupported content omitted]">>) \o TextParts(Tail(blocks))

RECURSIVE ToolCallsOf(_, _)
\* tool_calls after the loop over the blocks
ToolCallsOf(blocks, n) ==
    IF blocks = <<>> THEN <<>>
    ELSE LET block == Head(blocks)
         IN  IF block.type = "tool_use"
             THEN <<map_tool_use(block, n)>>
                      \o ToolCallsOf(Tail(blocks), IF block.id = NoneV THEN n + 1 ELSE n)
             ELSE ToolCallsOf(Tail(blocks), n)

RECURSIVE ToolResultsOf(_)
\* tool_results after the loop over the blocks
ToolResultsOf(blocks) ==
    IF blocks = <<>> THEN <<>>
    ELSE (IF Head(blocks).type = "tool_result" THEN <<map_tool_result(Head(blocks))>>
          ELSE <<>>) \o ToolResultsOf(Tail(blocks))

\* text_parts is not empty: a block other than tool_use and tool_result was seen
HasTextParts(blocks) ==
    \E i \in 1..Len(blocks) : blocks[i].type \notin {"tool_use", "tool_result"}

\* convert_anthropic_message putting the tool results before the base message
convert_anthropic_message_results_first(message, n) ==
    IF message.content.kind = "str"
    THEN <<ChatMessage(message.role, message.content.text, <<>>, NoneV)>>
    ELSE IF message.content.kind /= "list" THEN <<>>
    ELSE LET blocks == message.content.parts
             tool_calls == ToolCallsOf(blocks, n)
         IN  ToolResultsOf(blocks)
                 \o (IF HasTextParts(blocks) \/ tool_calls /= <<>>
                     THEN <<ChatMessage(message.role, TextParts(blocks), tool_calls, NoneV)>>
                     ELSE <<>>)

convert_anthropic_message(message, n) ==
    IF message.content.kind = "str"
    THEN <<ChatMessage(message.role, message.content.text, <<>>, NoneV)>>
    ELSE IF message.content.kind /= "list" THEN <<>>
    ELSE LET blocks == message.content.parts
             tool_calls == ToolCallsOf(blocks, n)
         IN  (IF HasTextParts(blocks) \/ tool_calls /= <<>>
              THEN <<ChatMessage(message.role, TextParts(blocks), tool_calls, NoneV)>>
              ELSE <<>>) \o ToolResultsOf(blocks)

\* the uuid4 values convert_anthropic_message draws for a message
UuidsDrawn(message) ==
    IF message.content.kind /= "list" THEN 0
    ELSE Cardinality({ i \in 1..Len(message.content.parts) :
                         /\ message.content.parts[i].type = "tool_use"
                         /\ message.content.parts[i].id = NoneV })

RECURSIVE ConvertMessages(_, _)
\* for msg in payload.get("messages"): messages.extend(convert_anthropic_message(msg))
ConvertMessages(messages, n) ==
    IF messages = <<>> THEN <<>>
    ELSE convert_anthropic_message(Head(messages), n)
             \o ConvertMessages(Tail(messages), n + UuidsDrawn(Head(messages)))

\* anthropic_to_openai: the messages of the request it builds
anthropic_to_openai(payload) ==
    LET system_text == coerce_text(payload.system)
    IN  [messages |->
            (IF system_text /= <<>>
             THEN <<ChatMessage("system", system_text, <<>>, NoneV)>> ELSE <<>>)
                \o ConvertMessages(payload.messages, 0)]

ListContent(blocks) == MessageContent("list", <<>>, blocks)

RequestMessages ==
    { Message("assistant", ListContent(<<TextIn(<<"a">>), ToolUseIn("t1", "get_weather", "object")>>)),
      Message("user", ListContent(<<ToolResultIn("t1", <<"7", "2", "F">>, FALSE)>>)),
      Message("user", MessageContent("str", <<"h", "i">>, <<>>)),
      Message("user", ListContent(<<ToolResultIn("t1", <<"e">>, TRUE), TextIn(<<"b">>),
                                    ToolResultIn(NoneV, TextNone, FALSE)>>)),
      Message("assistant", ListContent(<<ToolUseIn(NoneV, NoneV, "str"),
                                         ToolUseIn("t2", "f", "object")>>)),
      Message("user", ListContent(<<ImageIn, ThinkingIn>>)),
      Message("user", MessageContent("none", <<>>, <<>>)),
      Message("user", ListContent(<<>>)),
      Message("assistant", ListContent(<<TextIn(<<"a">>), TextIn(<<"b">>)>>)) }

RequestSystems == { TextNone, <<"s", "y", "s">> }

Conversations ==
    UNION { [1..n -> RequestMessages] : n \in 0..MaxMessages }

InitChatRequest ==
    /\ \E system \in RequestSystems, messages \in Conversations :
          call = [fn |-> "anthropic_to_openai",
                  payload |-> [system |-> system, messages |-> messages],
                  done |-> FALSE, result |-> [messages |-> <<>>]]
    /\ environ = NoEnviron
    /\ HandlersOff

\* openai_payload = anthropic_to_openai(payload)
ApplyAnthropicToOpenAi ==
    /\ call.fn = "anthropic_to_openai"
    /\ ~call.done
    /\ call' = [call EXCEPT !.done = TRUE, !.result = anthropic_to_openai(call.payload)]
    /\ UNCHANGED <<streamVars, postVars, supVars>>

NextChatRequest == ApplyAnthropicToOpenAi

SpecChatRequest == InitChatRequest /\ [][NextChatRequest]_vars

(***************************************************************************)
(* map_tool_choice                                                         *)
(***************************************************************************)

\* a tool_choice value: kind is "str", "dict" or "other" (None, a number, a
\* list); text is the string; type, name and disable_parallel_tool_use are
\* the members of the dict, NoneV when absent
ToolChoice(kind, text, type, name, disable_parallel_tool_use) ==
    [kind |-> kind, text |-> text, type |-> type, name |-> name,
     disable_parallel_tool_use |-> disable_parallel_tool_use]

StrChoice(text) == ToolChoice("str", text, NoneV, NoneV, NoneV)

\* {"type": "function", "function": {"name": name}}
FunctionChoice(name) == ToolChoice("dict", "", "function", name, NoneV)

map_tool_choice(tool_choice) ==
    IF tool_choice.kind = "str" THEN tool_choice
    ELSE IF tool_choice.kind /= "dict" THEN StrChoice("auto")
    ELSE IF tool_choice.type \in {"auto", "none"} THEN StrChoice(tool_choice.type)
    ELSE IF tool_choice.type = "tool" /\ tool_choice.name \notin {NoneV, ""}
    THEN FunctionChoice(tool_choice.name)
    ELSE StrChoice("auto")

\* payload["tool_choice"]: strings, dicts of each type with and without a
\* name, and values that are neither
ToolChoices ==
    { StrChoice(text) : text \in {"auto", "none", "any", "required", "tool", ""} }
    \cup { ToolChoice("other", "", NoneV, NoneV, NoneV) }
    \cup { ToolChoice("dict", "", type, name, parallel) :
              type \in {"auto", "none", "any", "tool", "function", NoneV},
              name \in {NoneV, "", "get_weather"},
              parallel \in {NoneV, "true", "false"} }

InitToolChoice ==
    /\ \E tool_choice \in ToolChoices :
          call = [fn |-> "map_tool_choice", tool_choice |-> tool_choice, done |-> FALSE,
                  result |-> StrChoice("-")]
    /\ environ = NoEnviron
    /\ HandlersOff

\* openai["tool_choice"] = map_tool_choice(payload["tool_choice"])
ApplyMapToolChoice ==
    /\ call.fn = "map_tool_choice"
    /\ ~call.done
    /\ call' = [call EXCEPT !.done = TRUE, !.result = map_tool_choice(call.tool_choice)]
    /\ UNCHANGED <<streamVars, postVars, supVars>>

NextToolChoice == ApplyMapToolChoice

SpecToolChoice == InitToolChoice /\ [][NextToolChoice]_vars

(***************************************************************************)
(* config.deep_merge: a dict is a function from its keys to values, a      *)
(* value is a scalar or a dict                                             *)
(***************************************************************************)

Scalar(v) == [is_dict |-> FALSE, v |-> v, d |-> <<>>]

DictValue(d) == [is_dict |-> TRUE, v |-> 0, d |-> d]

\* {}
EmptyDict == [key \in {} |-> Scalar(0)]

\* the dict with the keys of keys, key mapped to values[key]
DictOf(keys, values) == [key \in keys |-> values[key]]

RECURSIVE deep_merge(_, _, _)

deep_merge_shallow(base, override, override_is_none) ==
    LET over == IF override_is_none THEN EmptyDict ELSE override
    IN  [key \in DOMAIN base \cup DOMAIN over |->
            IF key \in DOMAIN over THEN over[key] ELSE base[key]]

deep_merge(base, override, override_is_none) ==
    LET over == IF override_is_none THEN EmptyDict ELSE override
    IN  [key \in DOMAIN base \cup DOMAIN over |->
            IF key \notin DOMAIN over THEN base[key]
            ELSE IF /\ over[key].is_dict
                    /\ key \in DOMAIN base
                    /\ base[key].is_dict
            THEN DictValue(deep_merge(base[key].d, over[key].d, FALSE))
            ELSE over[key]]

\* the dicts with keys among e and f
InnerDicts ==
    { DictOf(keys, [key \in {"e", "f"} |-> Scalar(5)]) : keys \in {{}, {"e"}, {"f"}} }

\* the dicts with keys among c and d, a value being a scalar or an inner dict
NestedDicts ==
    UNION { { DictOf(keys, [key \in {"c", "d"} |-> IF key = "c" THEN c ELSE d]) :
                c \in {Scalar(2), Scalar(4)} \cup { DictValue(i) : i \in InnerDicts },
                d \in {Scalar(3)} } :
            keys \in SUBSET {"c", "d"} }

\* the dicts with keys among a and b, a value being a scalar or a nested dict
ConfigDicts ==
    UNION { { DictOf(keys, [key \in {"a", "b"} |-> IF key = "a" THEN a ELSE b]) :
                a \in {Scalar(1), DictValue(DictOf({"c"}, [key \in {"c"} |-> Scalar(4)]))},
                b \in {Scalar(1)} \cup { DictValue(n) : n \in NestedDicts } } :
            keys \in SUBSET {"a", "b"} }

InitMerge ==
    /\ \E base \in ConfigDicts, override \in ConfigDicts, override_is_none \in BOOLEAN :
          /\ override_is_none => override = EmptyDict
          /\ call = [fn |-> "deep_merge", base |-> base, override |-> override,
                     override_is_none |-> override_is_none, done |-> FALSE,
                     result |-> EmptyDict]
    /\ environ = NoEnviron
    /\ HandlersOff

\* config = deep_merge(DEFAULT_CONFIG, load_config_file(get_config_path()))
ApplyDeepMerge ==
    /\ call.fn = "deep_merge"
    /\ ~call.done
    /\ call' = [call EXCEPT !.done = TRUE,
                            !.result = deep_merge(call.base, call.override,
                                                  call.override_is_none)]
    /\ UNCHANGED <<streamVars, postVars, supVars>>

NextMerge == ApplyDeepMerge

SpecMerge == InitMerge /\ [][NextMerge]_vars

(***************************************************************************)
(* config.normalize_value                                                  *)
(***************************************************************************)

\* a configuration value: kind is "none", "str", "int", "bool" or "list";
\* text is str(value), character by character
ConfigValue(kind, text) == [kind |-> kind, text |-> text]

\* the value is falsy: None, "", 0, False, []
Falsy(value) ==
    \/ value.kind = "none"
    \/ value.kind = "str" /\ value.text = <<>>
    \/ value.kind = "int" /\ value.text = <<"0">>
    \/ value.kind = "bool" /\ value.text = <<"F", "a", "l", "s", "e">>
    \/ value.kind = "list" /\ value.text = <<"[", "]">>

normalize_value_falsy(value, fallback) ==
    IF Falsy(value) THEN fallback
    ELSE LET text == Strip(value.text)
         IN  IF text /= <<>> THEN text ELSE fallback

normalize_value(value, fallback) ==
    IF value.kind = "none" THEN fallback
    ELSE LET text == Strip(value.text)
         IN  IF text /= <<>> THEN text ELSE fallback

\* the strings of up to MaxValueLen characters over a letter and two kinds
\* of whitespace
ValueStrings == UNION { [1..n -> {"a", " ", "\n"}] : n \in 0..MaxValueLen }

\* None, strings, and values that are not strings: 0, 7, False, []
ConfigValues ==
    { ConfigValue("none", <<"N", "o", "n", "e">>) }
    \cup { ConfigValue("str", text) : text \in ValueStrings }
    \cup { ConfigValue("int", <<"0">>), ConfigValue("int", <<"7">>),
           ConfigValue("bool", <<"F", "a", "l", "s", "e">>),
           ConfigValue("list", <<"[", "]">>) }

Fallbacks == { <<>>, <<"d", "e", "f">>, <<" ", "d">> }

InitNormalize ==
    /\ \E value \in ConfigValues, fallback \in Fallbacks :
          call = [fn |-> "normalize_value", value |-> value, fallback |-> fallback,
                  done |-> FALSE, result |-> <<>>]
    /\ environ = NoEnviron
    /\ HandlersOff

\* proxy_url = normalize_value(config.get("proxy_url"), DEFAULT_PROXY_URL)
ApplyNormalizeValue ==
    /\ call.fn = "normalize_value"
    /\ ~call.done
    /\ call' = [call EXCEPT !.done = TRUE,
                            !.result = normalize_value(call.value, call.fallback)]
    /\ UNCHANGED <<streamVars, postVars, supVars>>

NextNormalize == ApplyNormalizeValue

SpecNormalize == InitNormalize /\ [][NextNormalize]_vars

(***************************************************************************)
(* The translations applied twice: uuid.uuid4() gives a new value at each  *)
(* draw, Uuid(k) for the k-th draw of the process                          *)
(***************************************************************************)

RECURSIVE UuidsDrawnBy(_)
\* the uuid4 values drawn for the messages of a request
UuidsDrawnBy(messages) ==
    IF messages = <<>> THEN 0
    ELSE UuidsDrawn(Head(messages)) + UuidsDrawnBy(Tail(messages))

\* anthropic_to_openai after n draws: the request built and the draws made
anthropic_to_openai_drawing(payload, n) ==
    LET system_text == coerce_text(payload.system)
    IN  [messages |->
            (IF system_text /= <<>>
             THEN <<ChatMessage("system", system_text, <<>>, NoneV)>> ELSE <<>>)
                \o ConvertMessages(payload.messages, n),
         drawn |-> n + UuidsDrawnBy(payload.messages)]

\* openai_to_anthropic after n draws: the tool ids are drawn first, the
\* message id after them; id is payload.get("id")
openai_to_anthropic_drawing(payload, id, n) ==
    LET message == IF payload.has_choice THEN payload.message ELSE NoMessage
        converted == openai_to_anthropic(payload)
        text_blocks == SelectSeq(converted.content, LAMBDA b : b.type = "text")
        fabricated == Cardinality({ i \in 1..Len(message.tool_calls) :
                                      message.tool_calls[i].id = NoneV })
    IN  [id |-> "msg_" \o (IF id /= NoneV THEN id ELSE Uuid(n + fabricated + 1)),
         type |-> converted.type, role |-> converted.role,
         content |-> text_blocks \o ToolUseBlocks(message.tool_calls, n),
         stop_reason |-> converted.stop_reason,
         drawn |-> n + fabricated + (IF id /= NoneV THEN 0 ELSE 1)]

\* payload.get("id") of a Chat Completions response
ResponseIds == { NoneV, "chatcmpl-1" }

InitTwice ==
    /\ \/ \E system \in RequestSystems, messages \in Conversations :
             call = [fn |-> "twice", side |-> "request",
                     payload |-> [system |-> system, messages |-> messages],
                     id |-> NoneV, drawn |-> 0, outputs |-> <<>>]
       \/ \E payload \in ChatResponses, id \in ResponseIds :
             call = [fn |-> "twice", side |-> "reply", payload |-> payload,
                     id |-> id, drawn |-> 0, outputs |-> <<>>]
    /\ environ = NoEnviron
    /\ HandlersOff

\* openai_payload = anthropic_to_openai(payload)
TranslateRequest ==
    /\ call.fn = "twice"
    /\ call.side = "request"
    /\ Len(call.outputs) < 2
    /\ LET out == anthropic_to_openai_drawing(call.payload, call.drawn)
       IN  call' = [call EXCEPT !.outputs = Append(@, [messages |-> out.messages]),
                                !.drawn = out.drawn]
    /\ UNCHANGED <<streamVars, postVars, supVars>>

\* openai_to_anthropic(upstream_payload)
TranslateReply ==
    /\ call.fn = "twice"
    /\ call.side = "reply"
    /\ Len(call.outputs) < 2
    /\ LET out == openai_to_anthropic_drawing(call.payload, call.id, call.drawn)
       IN  call' = [call EXCEPT !.outputs = Append(@, [id |-> out.id, type |-> out.type,
                                                      role |-> out.role,
                                                      content |-> out.content,
                                                      stop_reason |-> out.stop_reason]),
                                !.drawn = out.drawn]
    /\ UNCHANGED <<streamVars, postVars, supVars>>

NextTwice ==
    \/ TranslateRequest
    \/ TranslateReply

SpecTwice == InitTwice /\ [][NextTwice]_vars

(***************************************************************************)
(* proxy_manager: one call of ensure_proxy_running                         *)
(***************************************************************************)

\* for _ in range(10) of start_proxy_and_wait
WaitAttempts == 10

\* count of candidate_proxy_urls
CandidateCount == 5

\* host, port and scheme; parsed.port or (443 if scheme == "https" else 80)
parse_proxy_url(proxy_url) ==
    <<proxy_url.host,
      IF proxy_url.port \in {-1, 0}
      THEN (IF proxy_url.scheme = "https" THEN 443 ELSE 80)
      ELSE proxy_url.port,
      proxy_url.scheme>>

is_local_host_any(host) == TRUE

is_local_host(host) == host \in {"127.0.0.1", "localhost", "::1"}

\* f"{proxy_url.rstrip('/')}/health"
proxy_health_url(proxy_url) ==
    [proxy_url EXCEPT !.path = RStripSlashes(proxy_url.path) \o <<"/", "health">>]

check_proxy_health_never(response) ==
    [is_none |-> TRUE, capabilities |-> Capabilities(FALSE, FALSE, FALSE)]

\* the payload of a response, None unless the request was answered with
\* status 200 and a JSON object whose status is "ok"
check_proxy_health(response) ==
    IF ~response.reached \/ response.status /= 200 \/ response.payload_status /= "ok"
    THEN [is_none |-> TRUE, capabilities |-> Capabilities(FALSE, FALSE, FALSE)]
    ELSE [is_none |-> FALSE, capabilities |-> response.capabilities]

is_proxy_compatible_responses_only(payload) ==
    /\ payload.capabilities.is_dict
    /\ payload.capabilities.supports_responses

is_proxy_compatible(payload) ==
    /\ payload.capabilities.is_dict
    /\ payload.capabilities.supports_responses
    /\ payload.capabilities.retry_on_not_chat_model

build_proxy_url(host, port, scheme) == Url(scheme, host, port, <<>>)

\* the base port, then the CandidateCount ports after it
candidate_proxy_urls(host, port, scheme) ==
    [k \in 1..(CandidateCount + 1) |-> build_proxy_url(host, port + (k - 1), scheme)]

\* what urlopen of a /health URL can give: no answer, a status other than
\* 200, a body that is not a JSON object, a status other than "ok", no
\* status member beside the capabilities, and "ok" with each shape of
\* capabilities
HealthResponses ==
    { HealthResponse(FALSE, 0, "-", Capabilities(FALSE, FALSE, FALSE)),
      HealthResponse(TRUE, 503, "ok", Capabilities(TRUE, TRUE, TRUE)),
      HealthResponse(TRUE, 200, "not_object", Capabilities(FALSE, FALSE, FALSE)),
      HealthResponse(TRUE, 200, "starting", Capabilities(TRUE, TRUE, TRUE)),
      HealthResponse(TRUE, 200, "absent", Capabilities(TRUE, FALSE, FALSE)),
      HealthResponse(TRUE, 200, "ok", Capabilities(FALSE, FALSE, FALSE)) }
    \cup { HealthResponse(TRUE, 200, "ok", Capabilities(TRUE, sr, rt)) : sr, rt \in BOOLEAN }

\* the proxy URLs a caller configures: local or remote, with a port or
\* without one, written as build_proxy_url writes it or with a trailing slash
ProxyUrls ==
    { Url("http", "127.0.0.1", 19000, <<>>), Url("http", "127.0.0.1", 19000, <<"/">>),
      Url("http", "localhost", -1, <<>>), Url("http", "example.com", 19000, <<>>) }

\* the machines: POSIX with no proxy process, with two, with two of which
\* the second belongs to another user; Windows with listeners on the port,
\* with and without listed proxy processes
HostSystems ==
    { HostOs(FALSE, {}, {}, {}), HostOs(FALSE, {1, 2}, {}, {}),
      HostOs(FALSE, {1, 2}, {}, {2}), HostOs(TRUE, {1, 2}, {2, 3}, {2}),
      HostOs(TRUE, {}, {2, 3}, {}) }

\* the pids netstat shows listening on the port; [] unless os.name == "nt"
list_listening_pids(os) == IF os.nt THEN os.listening ELSE {}

\* the pids terminate_proxy_processes signals and those it kills: every
\* listed proxy process and, where the health probe got a payload, every
\* listener of the port not killed yet
terminate_proxy_processes(os, host, health) ==
    LET killed == os.proxies \ os.denied
        others == IF is_local_host(host) /\ ~health.is_none
                  THEN list_listening_pids(os) \ killed
                  ELSE {}
    IN  [signalled |-> os.proxies \cup others,
         killed |-> killed \cup (others \ os.denied)]

Probe(proxy_url, response) == [url |-> proxy_health_url(proxy_url), response |-> response]

Return(status, url) == [status |-> status, url |-> url]

InitSupervisor ==
    /\ sup_pc = "import"
    /\ \E lazy \in BOOLEAN, proxy_url \in ProxyUrls, force_restart \in BOOLEAN :
          sup = [lazy_annotations |-> lazy, proxy_url |-> proxy_url,
                 force_restart |-> force_restart, phase |-> "-", target |-> NoUrl,
                 k |-> 0, attempts |-> 0]
    /\ last_probe = NoProbe
    /\ ret = NoReturn
    /\ host_os \in HostSystems
    /\ history = NoHistory
    /\ call = NoCall
    /\ environ = Environ(TextNone, TextNone, TextNone)
    /\ post_pc = "off"
    /\ request = NoRequest
    /\ locals = NoLocals
    /\ calls = <<>>
    /\ replies = <<>>
    /\ upstream = "-"
    /\ path = "-"
    /\ pc = "off"
    /\ events = <<>>
    /\ writer = StreamWriterInit
    /\ tool_args = [o \in ToolOrdinals |-> <<>>]

\* import of proxy_manager: the annotation Optional[dict] names a typing
\* member the module does not import, a NameError where annotations are
\* evaluated when the def statement runs
ImportModule ==
    /\ sup_pc = "import"
    /\ sup_pc' = IF sup.lazy_annotations THEN "entry" ELSE "crashed"
    /\ UNCHANGED <<sup, last_probe, ret, host_os, history>>
    /\ UNCHANGED <<streamVars, postVars, call>>

\* start_proxy_and_wait(target) returned False: the statement after the call
StartFailed ==
    CASE sup.phase = "restart" ->
             /\ sup_pc' = "candidate"
             /\ sup' = [sup EXCEPT !.phase = "restart_candidates", !.k = 1]
             /\ ret' = ret
      [] sup.phase \in {"restart_candidates", "old"} ->
             /\ sup_pc' = "candidate"
             /\ sup' = [sup EXCEPT !.k = sup.k + 1]
             /\ ret' = ret
      [] OTHER ->
             /\ sup_pc' = "returned"
             /\ sup' = sup
             /\ ret' = Return("failed", sup.proxy_url)

\* start_proxy_and_wait(target) returned True: the return after the call
StartSucceeded ==
    /\ sup_pc' = "returned"
    /\ sup' = sup
    /\ ret' = Return(IF sup.phase = "restart" THEN "restarted" ELSE "started", sup.target)

\* ensure_proxy_running up to its first start_proxy_and_wait or loop
CallEnsure ==
    /\ sup_pc = "entry"
    /\ LET host == parse_proxy_url(sup.proxy_url)[1]
       IN  IF ~is_local_host(host)
           THEN /\ sup_pc' = "returned"
                /\ ret' = Return("skip", sup.proxy_url)
                /\ UNCHANGED <<sup, last_probe, history>>
           ELSE \E response \in HealthResponses :
                  /\ last_probe' = Probe(sup.proxy_url, response)
                  /\ IF sup.force_restart
                     THEN \* terminate_proxy_processes probes proxy_url
                          LET done == terminate_proxy_processes(
                                          host_os, host, check_proxy_health(response))
                          IN  /\ history' = [history EXCEPT
                                                !.terminated = TRUE,
                                                !.signalled = done.signalled,
                                                !.killed = done.killed,
                                                !.first_probe = Probe(sup.proxy_url, response)]
                              /\ sup_pc' = "start"
                              /\ sup' = [sup EXCEPT !.phase = "restart",
                                                    !.target = sup.proxy_url]
                              /\ ret' = ret
                     ELSE LET health == check_proxy_health(response)
                          IN  /\ history' = [history EXCEPT
                                                !.first_probe = Probe(sup.proxy_url, response)]
                              /\ IF ~health.is_none /\ is_proxy_compatible(health)
                                 THEN /\ sup_pc' = "returned"
                                      /\ ret' = Return("running", sup.proxy_url)
                                      /\ sup' = sup
                                 ELSE IF ~health.is_none
                                 THEN /\ sup_pc' = "candidate"
                                      /\ sup' = [sup EXCEPT !.phase = "old", !.k = 1]
                                      /\ ret' = ret
                                 ELSE /\ sup_pc' = "start"
                                      /\ sup' = [sup EXCEPT !.phase = "fresh",
                                                            !.target = sup.proxy_url]
                                      /\ ret' = ret
    /\ UNCHANGED host_os
    /\ UNCHANGED <<streamVars, postVars, call>>

\* one turn of a loop over candidate_proxy_urls, up to its
\* start_proxy_and_wait, or the return after the loop
NextCandidate ==
    /\ sup_pc = "candidate"
    /\ LET parsed == parse_proxy_url(sup.proxy_url)
           candidates == candidate_proxy_urls(parsed[1], parsed[2], parsed[3])
       IN  IF sup.k > Len(candidates)
           THEN /\ sup_pc' = "returned"
                /\ ret' = Return("failed", sup.proxy_url)
                /\ UNCHANGED <<sup, last_probe, history>>
           ELSE LET candidate_url == candidates[sup.k]
                IN  IF candidate_url = sup.proxy_url
                    THEN /\ sup' = [sup EXCEPT !.k = sup.k + 1]
                         /\ UNCHANGED <<sup_pc, last_probe, ret, history>>
                    ELSE IF sup.phase = "restart_candidates"
                    THEN /\ sup_pc' = "start"
                         /\ sup' = [sup EXCEPT !.target = candidate_url]
                         /\ UNCHANGED <<last_probe, ret, history>>
                    ELSE \E response \in HealthResponses :
                           LET candidate_health == check_proxy_health(response)
                           IN  /\ last_probe' = Probe(candidate_url, response)
                               /\ IF /\ ~candidate_health.is_none
                                     /\ is_proxy_compatible(candidate_health)
                                  THEN /\ sup_pc' = "returned"
                                       /\ ret' = Return("running", candidate_url)
                                       /\ sup' = sup
                                       /\ history' = history
                                  ELSE IF ~candidate_health.is_none
                                  THEN /\ sup' = [sup EXCEPT !.k = sup.k + 1]
                                       /\ UNCHANGED <<sup_pc, ret, history>>
                                  ELSE /\ sup_pc' = "start"
                                       /\ sup' = [sup EXCEPT !.target = candidate_url]
                                       /\ ret' = ret
                                       /\ history' = history
    /\ UNCHANGED host_os
    /\ UNCHANGED <<streamVars, postVars, call>>

\* start_proxy_process(target) inside start_proxy_and_wait: the process is
\* spawned, or proxy.py is missing or Popen raises OSError
StartProxyProcess ==
    /\ sup_pc = "start"
    /\ \E ok \in BOOLEAN :
          IF ok
          THEN /\ sup_pc' = "wait"
               /\ sup' = [sup EXCEPT !.attempts = 0]
               /\ ret' = ret
          ELSE StartFailed
    /\ history' = [history EXCEPT !.starts = Append(@, sup.target)]
    /\ UNCHANGED <<last_probe, host_os>>
    /\ UNCHANGED <<streamVars, postVars, call>>

\* the processes that were on the machine before the call and that
\* terminate_proxy_processes did not kill
Survivors == (host_os.proxies \cup host_os.listening) \ history.killed

\* who may answer a /health probe of the wait loop: the child spawned at the
\* target, or a process that was there before; check_proxy_health cannot
\* tell them apart
Answerers == {"spawned"} \cup (IF Survivors /= {} THEN {"survivor"} ELSE {})

\* one turn of the waiting loop of start_proxy_and_wait, with what follows
\* the call when the loop ends
WaitProbe ==
    /\ sup_pc = "wait"
    /\ sup.attempts < WaitAttempts
    /\ \E response \in HealthResponses :
          LET health == check_proxy_health(response)
          IN  /\ last_probe' = Probe(sup.target, response)
              /\ IF ~health.is_none /\ is_proxy_compatible(health)
                 THEN /\ StartSucceeded
                      /\ \E answerer \in Answerers :
                            history' = [history EXCEPT !.answerer = answerer]
                 ELSE IF sup.attempts + 1 < WaitAttempts
                 THEN /\ sup' = [sup EXCEPT !.attempts = sup.attempts + 1]
                      /\ UNCHANGED <<sup_pc, ret, history>>
                 ELSE \* the child is left as it is: nothing stops it
                      /\ StartFailed
                      /\ history' = [history EXCEPT !.abandoned = TRUE]
    /\ UNCHANGED host_os
    /\ UNCHANGED <<streamVars, postVars, call>>

NextSupervisor ==
    \/ ImportModule
    \/ CallEnsure
    \/ NextCandidate
    \/ StartProxyProcess
    \/ WaitProbe

SpecSupervisor == InitSupervisor /\ [][NextSupervisor]_vars

(***************************************************************************)
(* The /health handshake: do_GET of the proxy, read by the supervisor      *)
(***************************************************************************)

PROXY_VERSION == "1.1"

PROXY_CAPABILITIES == Capabilities(TRUE, TRUE, TRUE)

\* a /health payload; capabilities.is_dict is FALSE when it has none
HealthPayload(status, version, capabilities) ==
    [status |-> status, proxy |-> "claude-model-router", version |-> version,
     capabilities |-> capabilities]

do_GET_without_capabilities(request_path) ==
    IF RStripSlashes(request_path) = <<"/", "health">>
    THEN _send_json(200, "health", "-",
                    HealthPayload("ok", PROXY_VERSION, Capabilities(FALSE, FALSE, FALSE)))
    ELSE _send_text(404, "not_found", <<"Not Found">>)

do_GET(request_path) ==
    IF RStripSlashes(request_path) = <<"/", "health">>
    THEN _send_json(200, "health", "-",
                    HealthPayload("ok", PROXY_VERSION, PROXY_CAPABILITIES))
    ELSE _send_text(404, "not_found", <<"Not Found">>)

\* what check_proxy_health gets from urlopen for a reply of the proxy: the
\* status, and the JSON object of the body if it is one
ReadReply(reply) ==
    IF reply.content_type = "application/json"
    THEN HealthResponse(TRUE, reply.status, reply.body.status, reply.body.capabilities)
    ELSE HealthResponse(TRUE, reply.status, "not_object", Capabilities(FALSE, FALSE, FALSE))

\* what check_proxy_health gets for a 200 answer carrying a payload
ReadPayload(payload) == HealthResponse(TRUE, 200, payload.status, payload.capabilities)

\* the paths of a GET, cut at the slashes
GetPaths ==
    { <<"/", "health">>, <<"/", "health", "/">>, <<"/", "health", "/", "/">>, <<"/">>,
      <<"/", "healthz">>, <<"/", "v1", "/", "health">>, <<"/", "health?full=1">> }

\* payloads of other servers and other versions: each status, version and
\* shape of capabilities
OtherPayloads ==
    { HealthPayload(status, version, capabilities) :
        status \in {"ok", "starting"}, version \in {PROXY_VERSION, "0.9", NoneV},
        capabilities \in { Capabilities(FALSE, FALSE, FALSE) }
                         \cup { Capabilities(TRUE, sr, rt) : sr, rt \in BOOLEAN } }

NoPayload == HealthPayload("-", "-", Capabilities(FALSE, FALSE, FALSE))

NoReply == Reply(0, "-", "-", "-", NoPayload)

\* a GET of the proxy, and the payload the supervisor judges afterwards: the
\* one the proxy served (other = NoPayload) or another one
InitHealth ==
    /\ \E request_path \in GetPaths, other \in OtherPayloads \cup {NoPayload} :
          call = [fn |-> "health", stage |-> "request", request_path |-> request_path,
                  other |-> other, reply |-> NoReply, verdict |-> FALSE]
    /\ environ = NoEnviron
    /\ HandlersOff

\* ProxyHandler.do_GET
ServeGet ==
    /\ call.fn = "health"
    /\ call.stage = "request"
    /\ call' = [call EXCEPT !.stage = "replied", !.reply = do_GET(call.request_path)]
    /\ UNCHANGED <<streamVars, postVars, supVars>>

\* health = check_proxy_health(url); health and is_proxy_compatible(health)
JudgeHealth ==
    /\ call.fn = "health"
    /\ call.stage = "replied"
    /\ LET response == IF call.other = NoPayload THEN ReadReply(call.reply)
                       ELSE ReadPayload(call.other)
           health == check_proxy_health(response)
       IN  call' = [call EXCEPT !.stage = "judged",
                                !.verdict = ~health.is_none /\ is_proxy_compatible(health)]
    /\ UNCHANGED <<streamVars, postVars, supVars>>

NextHealth ==
    \/ ServeGet
    \/ JudgeHealth

SpecHealth == InitHealth /\ [][NextHealth]_vars

-----------------------------------------------------------------------------
(* openai_responses_to_anthropic: the stop_reason of a Responses reply     *)
(* that is not streamed                                                    *)

\* a Responses reply: the types of its output items and
\* incomplete_details.reason (NoneV when it has none)
ResponsesReply(output, incomplete_reason) ==
    [output |-> output, incomplete_reason |-> incomplete_reason]

openai_responses_to_anthropic(payload) ==
    LET has_tool_calls == \E i \in 1..Len(payload.output) :
                              payload.output[i] = "function_call"
        stop_reason == IF payload.incomplete_reason \in {"max_tokens", "max_output_tokens"}
                       THEN "max_tokens"
                       ELSE IF has_tool_calls THEN "tool_use"
                       ELSE "end_turn"
    IN  [type |-> "message", role |-> "assistant", stop_reason |-> stop_reason]

-----------------------------------------------------------------------------
(* main: ThreadingHTTPServer gives every connection a thread and a new     *)
(* ProxyHandler; a stream handler creates its own AnthropicStreamWriter.   *)
(* The threads of the server are held in call.threads.                     *)

ThreadIds == {1, 2}

\* one handler thread: the state of its _handle_stream or
\* _handle_responses_stream call
ServerThread(thread_path, thread_pc, lines, w, ta) ==
    [path |-> thread_path, pc |-> thread_pc, events |-> lines, writer |-> w,
     tool_args |-> ta]

\* the lines an upstream sends to a thread
ThreadLines(thread_path) ==
    IF thread_path = "chat"
    THEN { TextChunk(<<"A">>),
           ToolChunk(ToolCall(0, "x", "f", <<"a">>)),
           ToolChunk(ToolCall(0, NoneV, NoneV, <<"b">>)) }
    ELSE { OutputItemAdded(0, "function_call", "x", "fc_x", "f", <<>>),
           ArgumentsDelta(0, <<"a">>),
           Terminal("response.completed", NoneV) }

\* the stream state thread k's handler works on, were the writer's fields
\* attributes of the class: every thread works on the fields of thread 1
StreamStateOf_shared(threads, k) ==
    [threads[1].writer EXCEPT !.wfile = threads[k].writer.wfile]

\* the stream state thread k's handler works on: the writer it created
StreamStateOf(threads, k) == threads[k].writer

\* thread k went from its writer to w; as in Written, a write may fail
ThreadWritten(k, w, next_pc, lines, ta) ==
    \/ call' = [call EXCEPT !.threads[k] =
                    ServerThread(@.path, next_pc, lines, w, ta)]
    \/ \E cut \in Len(call.threads[k].writer.wfile) .. (Len(w.wfile) - 1) :
          call' = [call EXCEPT !.threads[k] =
                    ServerThread(@.path, "broken", lines,
                                 [StreamWriterInit EXCEPT !.wfile = SubSeq(w.wfile, 1, cut)],
                                 ta)]

InitServe ==
    /\ \E paths \in [ThreadIds -> {"chat", "responses"}] :
          call = [fn |-> "serve_forever",
                  threads |-> [k \in ThreadIds |->
                      ServerThread(paths[k], "idle", <<>>, StreamWriterInit,
                                   [i \in ToolOrdinals |-> <<>>])]]
    /\ environ = NoEnviron
    /\ HandlersOff

\* a connection's thread reaches its stream handler:
\* writer = AnthropicStreamWriter(self, requested_model)
StartStream ==
    /\ call.fn = "serve_forever"
    /\ \E k \in ThreadIds :
          /\ call.threads[k].pc = "idle"
          /\ call' = [call EXCEPT !.threads[k].pc = "read",
                                  !.threads[k].writer = StreamWriterInit]
    /\ UNCHANGED <<streamVars, postVars, supVars>>

\* a thread reads one more line of its upstream response and handles it
ThreadLine ==
    /\ call.fn = "serve_forever"
    /\ \E k \in ThreadIds :
          LET t == call.threads[k]
              w == StreamStateOf(call.threads, k)
          IN  /\ t.pc = "read"
              /\ Len(t.events) < MaxThreadEvents
              /\ \E ev \in ThreadLines(t.path) :
                    IF t.path = "chat"
                    THEN ThreadWritten(k, ChatIteration(w, ev), "read",
                                       Append(t.events, ev), t.tool_args)
                    ELSE LET r == ResponsesIteration(w, t.tool_args, ev)
                         IN  IF r.brk
                             THEN ThreadWritten(k, AfterLoop(r.w), "done",
                                                Append(t.events, ev), r.tool_args)
                             ELSE ThreadWritten(k, r.w, "read",
                                                Append(t.events, ev), r.tool_args)
    /\ UNCHANGED <<streamVars, postVars, supVars>>

\* a thread's upstream response ends, or its line is "data: [DONE]"
ThreadEnd ==
    /\ call.fn = "serve_forever"
    /\ \E k \in ThreadIds :
          LET t == call.threads[k]
          IN  /\ t.pc = "read"
              /\ ThreadWritten(k, AfterLoop(StreamStateOf(call.threads, k)), "done",
                               t.events, t.tool_args)
    /\ UNCHANGED <<streamVars, postVars, supVars>>

NextServe == StartStream \/ ThreadLine \/ ThreadEnd

SpecServe == InitServe /\ [][NextServe]_vars

-----------------------------------------------------------------------------
(* Properties of one streaming response (SpecStream, SpecS4)               *)

Wfile == writer.wfile

IsBlockStart(f) == f.type = "content_block_start"
IsBlockStop(f) == f.type = "content_block_stop"
IsBlockDelta(f) == f.type = "content_block_delta"
IsToolStart(f) == f.type = "content_block_start" /\ f.kind = "tool_use"
IsTextStart(f) == f.type = "content_block_start" /\ f.kind = "text"
IsTextDelta(f) == f.type = "content_block_delta" /\ f.kind = "text_delta"

BlockStarts == SelectSeq(Wfile, IsBlockStart)
BlockStops == SelectSeq(Wfile, IsBlockStop)

\* the positions of the frames of a type
PositionsOf(type) == {j \in 1..Len(Wfile) : Wfile[j].type = type}

\* the response ran to its end: the loop ended and the handler returned
\* without a failed write or a failed read
Finished == pc = "done"

\* C1: in a streaming response the started block indices are 0, 1, .., k-1
\* in the order of their content_block_start frames, and once the response
\* has run to its end there are as many content_block_stop frames as
\* content_block_start frames, one for each started index.
C1_BlocksStartedAndStoppedOnce ==
    /\ \A i \in 1..Len(BlockStarts) : BlockStarts[i].index = i - 1
    /\ Finished =>
          /\ Len(BlockStops) = Len(BlockStarts)
          /\ \A i \in 1..Len(BlockStarts) :
                Cardinality({j \in 1..Len(BlockStops) : BlockStops[j].index = i - 1}) = 1

\* a finished response with a text block and two tool blocks, one of them
\* started at finalization
C1_Witness ==
    /\ Finished
    /\ Len(BlockStarts) = 3
    /\ \E j \in 1..Len(Wfile) : IsToolStart(Wfile[j]) /\ Wfile[j].name = "tool"

\* C2: every streaming response that has run to its end holds exactly one
\* message_start and exactly one message_stop, and a message_delta before
\* the message_stop.
C2_OneMessageStartAndStop ==
    Finished =>
        /\ Cardinality(PositionsOf("message_start")) = 1
        /\ Cardinality(PositionsOf("message_stop")) = 1
        /\ \E j \in PositionsOf("message_delta") :
              \A k \in PositionsOf("message_stop") : j < k

\* C3: the frames of a streaming response are ordered: message_start is the
\* first frame; a content_block_delta for index i comes after
\* content_block_start(i) and before content_block_stop(i); every
\* content_block_stop comes before message_delta; message_stop is the last
\* frame, and ends a response that has run to its end.
C3_FrameOrder ==
    /\ Wfile /= <<>> => Wfile[1].type = "message_start"
    /\ \A j \in 1..Len(Wfile) :
          IsBlockDelta(Wfile[j]) =>
              /\ \E i \in 1..(j - 1) :
                    IsBlockStart(Wfile[i]) /\ Wfile[i].index = Wfile[j].index
              /\ \A i \in 1..(j - 1) :
                    ~(IsBlockStop(Wfile[i]) /\ Wfile[i].index = Wfile[j].index)
              /\ Finished =>
                    \E i \in (j + 1)..Len(Wfile) :
                        IsBlockStop(Wfile[i]) /\ Wfile[i].index = Wfile[j].index
    /\ \A j \in PositionsOf("message_delta") :
          /\ \A i \in PositionsOf("content_block_stop") : i < j
          /\ \A i \in (j + 1)..Len(Wfile) : Wfile[i].type = "message_stop"
    /\ \A j \in PositionsOf("message_stop") : j = Len(Wfile)
    /\ (Finished /\ Wfile /= <<>>) => Wfile[Len(Wfile)].type = "message_stop"

\* a finished response in which a text delta follows the start of a tool block
C3_Witness ==
    /\ Finished
    /\ \E i, j \in 1..Len(Wfile) :
          i < j /\ IsToolStart(Wfile[i]) /\ IsTextDelta(Wfile[j])

\* the frames scenario S4 expects
S4Frames ==
    << MessageStartFrame,
       TextBlockStartFrame(0),
       TextDeltaFrame(0, <<"A">>),
       ToolBlockStartFrame(1, "x", "f"),
       InputJsonDeltaFrame(1, <<"{", "\"">>),
       InputJsonDeltaFrame(1, <<"k", "\"", ":", "1", "}">>),
       TextDeltaFrame(0, <<"B">>),
       BlockStopFrame(0),
       BlockStopFrame(1),
       MessageDeltaFrame("tool_use"),
       MessageStopFrame >>

\* C4: scenario S4: when the Chat Completions upstream has sent the events
\* of S4 in order and then [DONE], the frames written are exactly those S4
\* expects.
C4_ScenarioS4 ==
    (Finished /\ path = "chat" /\ events = S4Events) => Wfile = S4Frames

C4_Witness == Finished /\ path = "chat" /\ events = S4Events

\* the texts received so far, in arrival order
RECURSIVE ReceivedTexts(_)
ReceivedTexts(evs) ==
    IF evs = <<>> THEN <<>>
    ELSE LET ev == evs[Len(evs)]
             before == ReceivedTexts(SubSeq(evs, 1, Len(evs) - 1))
             text == IF ev.kind = "chunk" THEN
                         IF ev.choices /\ ev.has_content THEN ev.content ELSE TextNone
                     ELSE IF ev.kind \in {"response.output_text.delta",
                                          "response.output_text.done"}
                     THEN ev.text
                     ELSE TextNone
         IN  IF text = TextNone THEN before ELSE Append(before, text)

TextDeltas == SelectSeq(Wfile, IsTextDelta)

\* C5: at most one text block is started, and as long as no write or read
\* has failed the text_delta frames are the texts received, in arrival
\* order, all on the index of that block.
C5_OneTextBlock ==
    /\ Len(SelectSeq(Wfile, IsTextStart)) <= 1
    /\ pc \in {"read", "done"} =>
          /\ Len(TextDeltas) = Len(ReceivedTexts(events))
          /\ \A i \in 1..Len(TextDeltas) :
                /\ TextDeltas[i].data = ReceivedTexts(events)[i]
                /\ \E j \in 1..Len(Wfile) :
                      IsTextStart(Wfile[j]) /\ Wfile[j].index = TextDeltas[i].index

\* texts received before and after a tool block was started, both emitted
C5_Witness ==
    /\ pc \in {"read", "done"}
    /\ Len(TextDeltas) >= 2
    /\ \E i, j, k \in 1..Len(Wfile) :
          i < j /\ j < k /\ IsTextDelta(Wfile[i]) /\ IsToolStart(Wfile[j])
              /\ IsTextDelta(Wfile[k])

\* the ids that the tool-call deltas of one event supply for ordinal o, in order
RECURSIVE ToolCallIds(_, _)
ToolCallIds(tool_calls, o) ==
    IF tool_calls = <<>> THEN <<>>
    ELSE LET tc == Head(tool_calls)
         IN  (IF tc.index = o /\ tc.id /= NoneV THEN <<tc.id>> ELSE <<>>)
                 \o ToolCallIds(Tail(tool_calls), o)

EventIds(ev, o) ==
    IF ev.kind = "chunk" THEN
        IF ev.choices THEN ToolCallIds(ev.tool_calls, o) ELSE <<>>
    ELSE IF ev.kind = "response.output_item.added" /\ ev.item_type = "function_call"
              /\ ev.index = o
    THEN IF ev.call_id /= NoneV THEN <<ev.call_id>>
         ELSE IF ev.id /= NoneV THEN <<ev.id>>
         ELSE <<>>
    ELSE <<>>

\* the ids upstream has supplied for ordinal o, in arrival order
RECURSIVE SuppliedIds(_, _)
SuppliedIds(evs, o) ==
    IF evs = <<>> THEN <<>>
    ELSE SuppliedIds(SubSeq(evs, 1, Len(evs) - 1), o) \o EventIds(evs[Len(evs)], o)

\* the tool names upstream has supplied so far
SuppliedNames ==
    UNION { {events[i].tool_calls[j].name : j \in DOMAIN events[i].tool_calls} :
              i \in {k \in 1..Len(events) : events[k].kind = "chunk"} }
    \cup { events[i].name :
             i \in {k \in 1..Len(events) :
                      /\ events[k].kind = "response.output_item.added"
                      /\ events[k].item_type = "function_call"} }

\* C6 (as claimed): a tool_use content_block_start is written only once
\* upstream has supplied both the id and the name of that tool call, so
\* every such frame carries an id and a name that upstream supplied.
C6_ToolStartNeedsNameAndId ==
    \A j \in 1..Len(Wfile) :
        IsToolStart(Wfile[j]) =>
            /\ \E o \in ToolOrdinals :
                  \E i \in 1..Len(SuppliedIds(events, o)) :
                      SuppliedIds(events, o)[i] = Wfile[j].id
            /\ Wfile[j].name \in SuppliedNames \ {NoneV}

\* C7 (as claimed, for streamed tool calls): the content_block_start of a
\* tool call carries the id upstream supplied for that call; an id is
\* fabricated only when upstream supplies none.
C7_ToolIdPassedThrough ==
    pc \in {"read", "done"} =>
        \A p \in 1..Len(writer.tool_states) :
            LET state == writer.tool_states[p]
                supplied == SuppliedIds(events, state.key)
            IN  (state.started /\ supplied /= <<>>) =>
                    \E j \in 1..Len(Wfile) :
                        /\ IsToolStart(Wfile[j])
                        /\ Wfile[j].index = state.content_index
                        /\ Wfile[j].id = supplied[1]

-----------------------------------------------------------------------------
(* Properties of one POST (SpecPost)                                       *)

\* do_POST has returned, or an exception has left it
Returned == post_pc \in {"done", "crashed"}

\* a message text names the not-a-chat-model error: it contains both
\* "not a chat model" and "chat/completions", or "v1/chat/completions",
\* whatever the case of its letters
NamesNotChatModel(message) ==
    LET msg == Lower(message)
    IN  \/ Contains(msg, <<"not a chat model">>) /\ Contains(msg, <<"chat/completions">>)
        \/ Contains(msg, <<"v1/", "chat/completions">>)

\* the first upstream call went to Chat Completions and got an HTTP error
FirstChatCallFailed ==
    /\ calls /= <<>>
    /\ calls[1].endpoint = "v1/chat/completions"
    /\ calls[1].outcome.kind = "http_error"

\* the retry was made, on the Responses path, and when it got a reply that
\* do_POST could hand on, the client was sent that reply, translated
RetriedOnResponses ==
    /\ Len(calls) = 2
    /\ calls[2].endpoint = "v1/responses"
    /\ (calls[2].outcome.kind = "ok" /\ post_pc = "done") =>
          /\ Len(replies) = 1
          /\ replies[1].via = "responses"
          /\ replies[1].what \in {"anthropic_message", "event_stream"}

C9_AtMostOneRetry ==
    /\ Len(calls) <= 2
    /\ Len(calls) = 2 =>
          /\ calls[2].endpoint = "v1/responses"
          /\ FirstChatCallFailed
          /\ calls[1].outcome.body.kind = "object"
          /\ \/ NamesNotChatModel(calls[1].outcome.body.error_text)
             \/ NamesNotChatModel(calls[1].outcome.body.message)
    /\ (Returned /\ calls /= <<>> /\ calls[1].endpoint = "v1/responses") => Len(calls) = 1

\* a request first sent on the Responses path got the not-a-chat-model error
\* and was answered after that one call
C9_Witness ==
    /\ post_pc = "done"
    /\ Len(calls) = 1
    /\ calls[1].endpoint = "v1/responses"
    /\ calls[1].outcome.kind = "http_error"
    /\ calls[1].outcome.body = Body("object", "object", S3Message, <<>>)

\* the last upstream call got an HTTP error and no call followed it
LastCallFailed ==
    /\ post_pc = "done"
    /\ calls /= <<>>
    /\ calls[Len(calls)].outcome.kind = "http_error"

\* the body parses as JSON
ParsesAsJson(body) == body.kind \notin {"empty", "text"}

\* C10 (as claimed): after an upstream HTTP error that triggers no
\* fallback, and after an HTTP error of the retry, the client has the status
\* of that upstream response and its body, as JSON when the body parses as
\* JSON and as text otherwise.
C10_ErrorForwardedVerbatim ==
    LastCallFailed =>
        LET outcome == calls[Len(calls)].outcome
        IN  /\ Len(replies) = 1
            /\ replies[1].status = outcome.status
            /\ replies[1].what = "upstream_body"
            /\ replies[1].body = outcome.body
            /\ replies[1].content_type =
                  IF ParsesAsJson(outcome.body) THEN "application/json" ELSE "text/plain"

\* C10 (amended): the client has the status of that upstream response and
\* its body, the text "Upstream error" standing for an empty body, as JSON
\* when the body parses as JSON to a value other than null and as text
\* otherwise.
C10_ErrorForwarded ==
    LastCallFailed =>
        LET outcome == calls[Len(calls)].outcome
        IN  /\ Len(replies) = 1
            /\ replies[1].status = outcome.status
            /\ IF outcome.body.kind = "empty"
               THEN replies[1].what = "Upstream error"
               ELSE replies[1].what = "upstream_body" /\ replies[1].body = outcome.body
            /\ replies[1].content_type =
                  IF ParsesAsJson(outcome.body) /\ outcome.body /= JsonNull
                  THEN "application/json" ELSE "text/plain"

\* the retry got an HTTP error with a JSON body, which the client was sent
C10_Witness ==
    /\ LastCallFailed
    /\ Len(calls) = 2
    /\ calls[2].outcome.body = Body("object", "object", OtherMessage, <<>>)
    /\ Len(replies) = 1
    /\ replies[1].status = 503

\* the last upstream call failed to connect
LastCallUnreachable ==
    /\ Returned
    /\ calls /= <<>>
    /\ calls[Len(calls)].outcome.kind = "url_error"

\* C11 (as claimed): whenever an upstream call fails with a connection or
\* URL error, on the first attempt or on the fallback retry, the client is
\* sent a 502 response of type upstream_error.
C11_UnreachableAnswered502 ==
    LastCallUnreachable =>
        /\ Len(replies) = 1
        /\ replies[1].status = 502
        /\ replies[1].what = "upstream_error"

\* the paths the messages endpoint is served on
MessagesPaths == { <<"/", "messages">>, <<"/", "v1", "/", "messages">> }

\* the request has reached the credential check of the messages endpoint
AtCredentialCheck ==
    /\ Returned
    /\ request.path \in MessagesPaths
    /\ request.body \in {"empty", "object"}

\* the token of an Authorization header, <<>> when it holds no bearer token
BearerToken(auth) ==
    IF auth /= TextNone /\ StartsWith(Lower(auth), <<"bearer", " ">>)
    THEN Strip(DropFirst(auth, 2))
    ELSE <<>>

\* the credential the precedence of the sources selects, <<>> when no
\* source holds one
SelectedCredential ==
    IF Truthy(request.x_api_key) THEN Strip(request.x_api_key)
    ELSE IF BearerToken(request.authorization) /= <<>>
    THEN BearerToken(request.authorization)
    ELSE IF Truthy(environ.OPENAI_API_KEY) THEN environ.OPENAI_API_KEY
    ELSE IF Truthy(environ.ANTHROPIC_AUTH_TOKEN) THEN environ.ANTHROPIC_AUTH_TOKEN
    ELSE <<>>

\* C12 (as claimed): when neither the x-api-key header, nor the bearer
\* token of Authorization, nor OPENAI_API_KEY, nor the fallback credential
\* holds a credential, the answer is 401 auth_error and no upstream call is
\* made.
C12_NoCredentialAnswered401 ==
    (AtCredentialCheck /\ SelectedCredential = <<>>) =>
        /\ calls = <<>>
        /\ Len(replies) = 1
        /\ replies[1].status = 401
        /\ replies[1].what = "auth_error"

\* C13 (as claimed): the credential sent upstream is the one the
\* precedence selects: x-api-key, else the bearer token, else
\* OPENAI_API_KEY, else the fallback credential; a credential a lower
\* source holds is used when the higher sources hold none.
C13_CredentialPrecedence ==
    (AtCredentialCheck /\ SelectedCredential /= <<>>) =>
        /\ calls /= <<>>
        /\ \A i \in 1..Len(calls) : calls[i].api_key = SelectedCredential

\* C14 (as claimed): an upstream call is made only for a POST to /messages
\* or /v1/messages; a POST to another path is answered 404.
C14_OnlyMessagesPathsDispatched ==
    (Returned /\ request.path \notin MessagesPaths) =>
        /\ calls = <<>>
        /\ Len(replies) = 1
        /\ replies[1].status = 404

-----------------------------------------------------------------------------
(* Properties of should_use_responses (SpecRoute)                          *)

\* the model name, trimmed and in lower case ("" for None)
TrimmedModel == IF call.model = TextNone THEN <<>> ELSE Lower(Strip(call.model))

\* the override flag is set to one of the tokens 1, true, yes, on
OverrideSet == Strip(EnvironGet("MODEL_ROUTER_FORCE_RESPONSES")) \in TruthyTokens

\* C16 (as claimed): should_use_responses(model) is true if and only if
\* the trimmed model name, in any case, starts with gpt-5, starts with o or
\* contains codex, or the override flag is set to a truthy token.
C16_RouteIffPrefixOrOverride ==
    (call.fn = "should_use_responses" /\ call.done) =>
        (call.result <=>
            \/ StartsWith(TrimmedModel, <<"g", "p", "t", "-", "5">>)
            \/ StartsWith(TrimmedModel, <<"o">>)
            \/ Contains(TrimmedModel, <<"c", "o", "d", "e", "x">>)
            \/ OverrideSet)

-----------------------------------------------------------------------------
(* Properties of build_upstream_url (SpecUrl)                              *)

\* the positions of a v1 segment in the path of a URL (the scheme, two
\* slashes and the host are its first four pieces)
V1Segments(url) ==
    { i \in 5..Len(url) :
        /\ url[i] = "v1"
        /\ url[i - 1] = "/"
        /\ i < Len(url) /\ url[i + 1] = "/" }

\* the tail of an endpoint: what follows its v1/
EndpointTail(endpoint) == DropFirst(endpoint, 2)

\* C17 (as claimed): for every base URL and each of the endpoints
\* v1/chat/completions and v1/responses, the URL built ends with the
\* endpoint's tail and holds exactly one /v1/ segment between the host and
\* that tail.
C17_ExactlyOneV1Segment ==
    (call.fn = "build_upstream_url" /\ call.done
         /\ call.endpoint \in UpstreamEndpoints) =>
        /\ EndsWith(call.result, <<"/">> \o EndpointTail(call.endpoint))
        /\ Cardinality(V1Segments(call.result)) = 1

-----------------------------------------------------------------------------
(* Properties of openai_to_anthropic (SpecChatReply)                       *)

\* C18 (as claimed): the translation of a Chat Completions response has
\* stop_reason tool_use if and only if its content holds at least one
\* tool_use block.
C18_ToolUseIffToolBlock ==
    (call.fn = "openai_to_anthropic" /\ call.done) =>
        (call.result.stop_reason = "tool_use" <=>
            \E i \in 1..Len(call.result.content) :
                call.result.content[i].type = "tool_use")

-----------------------------------------------------------------------------
(* Properties of anthropic_to_openai (SpecChatRequest)                     *)

\* the blocks of a request message
InputBlocks(m) == IF m.content.kind = "list" THEN m.content.parts ELSE <<>>

IsToolUseIn(b) == b.type = "tool_use"
IsToolResultIn(b) == b.type = "tool_result"
IsTextIn(b) == b.type = "text"

UsesOf(m) == SelectSeq(InputBlocks(m), IsToolUseIn)
ResultsOf(m) == SelectSeq(InputBlocks(m), IsToolResultIn)

RECURSIVE ConcatTexts(_)
ConcatTexts(blocks) ==
    IF blocks = <<>> THEN <<>> ELSE Head(blocks).text \o ConcatTexts(Tail(blocks))

\* the text of a message whose blocks are text, tool_use and tool_result blocks
TextOf(m) ==
    IF m.content.kind = "str" THEN m.content.text
    ELSE ConcatTexts(SelectSeq(InputBlocks(m), IsTextIn))

OnlyTextAndTools(m) ==
    \A i \in 1..Len(InputBlocks(m)) :
        InputBlocks(m)[i].type \in {"text", "tool_use", "tool_result"}

\* the message has something for a base message to carry: a string content,
\* or a block that is not a tool_result
CarriesBase(m) ==
    \/ m.content.kind = "str"
    \/ \E i \in 1..Len(InputBlocks(m)) : ~IsToolResultIn(InputBlocks(m)[i])

\* the Chat messages that follow the system message
Translated ==
    LET out == call.result.messages
    IN  IF out /= <<>> /\ out[1].role = "system" THEN Tail(out) ELSE out

\* the Chat messages a request message is to yield
Yield(m, always_base) ==
    (IF always_base \/ CarriesBase(m) THEN 1 ELSE 0) + Len(ResultsOf(m))

RECURSIVE YieldBefore(_, _, _)
\* the Chat messages the first k - 1 request messages are to yield
YieldBefore(msgs, k, always_base) ==
    IF k <= 1 THEN 0
    ELSE YieldBefore(msgs, k - 1, always_base) + Yield(msgs[k - 1], always_base)

\* the translation keeps the order of the messages: message k yields its
\* base message (role, text, a tool_calls entry per tool_use block with the
\* id of the block) and then a role:tool message per tool_result block with
\* the block's tool_use_id, in block order
InMessageOrder(always_base) ==
    LET msgs == call.payload.messages
        out == Translated
    IN  /\ Len(out) = YieldBefore(msgs, Len(msgs) + 1, always_base)
        /\ \A k \in 1..Len(msgs) :
              LET m == msgs[k]
                  start == YieldBefore(msgs, k, always_base)
                  based == always_base \/ CarriesBase(m)
                  b == IF based THEN 1 ELSE 0
              IN  /\ based =>
                        /\ out[start + 1].role = m.role
                        /\ OnlyTextAndTools(m) => out[start + 1].content = TextOf(m)
                        /\ Len(out[start + 1].tool_calls) = Len(UsesOf(m))
                        /\ \A i \in 1..Len(UsesOf(m)) :
                              UsesOf(m)[i].id /= NoneV =>
                                  out[start + 1].tool_calls[i].id = UsesOf(m)[i].id
                  /\ \A i \in 1..Len(ResultsOf(m)) :
                        /\ out[start + b + i].role = "tool"
                        /\ ResultsOf(m)[i].id /= NoneV =>
                              out[start + b + i].tool_call_id = ResultsOf(m)[i].id

\* C19 (as claimed): the order of the input messages is kept, and each
\* input message yields its base message followed by one role:tool message
\* per tool_result block, in block order.
C19_EveryMessageYieldsBase ==
    (call.fn = "anthropic_to_openai" /\ call.done) => InMessageOrder(TRUE)

\* C19 (amended): the same, a message yielding a base message only when it
\* has a string content or a block other than a tool_result.
C19_MessagesInOrder ==
    (call.fn = "anthropic_to_openai" /\ call.done) => InMessageOrder(FALSE)

\* scenario S2: an assistant tool_use t1 and then a user tool_result t1 gave
\* the assistant message with tool call t1 and then the tool message for t1
C19_Witness ==
    /\ call.fn = "anthropic_to_openai"
    /\ call.done
    /\ call.payload.system = TextNone
    /\ Len(call.payload.messages) = 2
    /\ call.payload.messages[1] =
          Message("assistant", ListContent(<<TextIn(<<"a">>),
                                             ToolUseIn("t1", "get_weather", "object")>>))
    /\ call.payload.messages[2] =
          Message("user", ListContent(<<ToolResultIn("t1", <<"7", "2", "F">>, FALSE)>>))
    /\ Len(call.result.messages) = 2
    /\ call.result.messages[1].tool_calls[1].id = "t1"
    /\ call.result.messages[2].tool_call_id = "t1"

(***************************************************************************)
(* Properties of ensure_proxy_running (SpecSupervisor)                     *)
(***************************************************************************)

\* the answer carries status 200 and a JSON object with status "ok" whose
\* capabilities report supports_responses and retry_on_not_chat_model
AnsweredCompatible(response) ==
    /\ response.reached
    /\ response.status = 200
    /\ response.payload_status = "ok"
    /\ response.capabilities.is_dict
    /\ response.capabilities.supports_responses
    /\ response.capabilities.retry_on_not_chat_model

\* C20: when ensure_proxy_running returns running, restarted or started, the
\* last /health probe of the call was of the returned URL and was answered
\* with a compatible payload (both capabilities truthy); when it returns
\* failed or skip, the returned URL is the original proxy_url.
C20_ReturnedUrlProbedCompatible ==
    sup_pc = "returned" =>
        /\ ret.status \in {"running", "restarted", "started", "failed", "skip"}
        /\ ret.status \in {"running", "restarted", "started"} =>
              /\ last_probe.url = proxy_health_url(ret.url)
              /\ AnsweredCompatible(last_probe.response)
        /\ ret.status \in {"failed", "skip"} => ret.url = sup.proxy_url

\* a proxy started on the second port after the configured one, the
\* configured port being held by an old proxy
C20_Witness ==
    /\ sup_pc = "returned"
    /\ sup.phase = "old"
    /\ ret.status = "started"
    /\ ret.url.port = sup.proxy_url.port + 2
    /\ AnsweredCompatible(last_probe.response)

\* the host named by the proxy_url of the call is a local one
LocalCall == is_local_host(parse_proxy_url(sup.proxy_url)[1])

\* the URL of the port that lies offset after the port of proxy_url
IncrementedUrl(offset) ==
    LET parsed == parse_proxy_url(sup.proxy_url)
    IN  build_proxy_url(parsed[1], parsed[2] + offset, parsed[3])

\* C21: with force_restart and a local host, every start follows the
\* termination of every listed proxy process; the first start is at
\* proxy_url and a success there returns restarted; the starts after it are
\* at the ports 1, 2, ... up to 5 after the port of proxy_url, in that order;
\* started carries the URL of the last start, and failed comes only after the
\* fifth incremented port.
C21_RestartThenPortHunt ==
    (LocalCall /\ sup.force_restart) =>
        /\ history.starts /= <<>> =>
              /\ history.terminated
              /\ host_os.proxies \subseteq history.signalled
              /\ history.starts[1] = sup.proxy_url
        /\ Len(history.starts) <= 1 + CandidateCount
        /\ \A i \in 2..Len(history.starts) : history.starts[i] = IncrementedUrl(i - 1)
        /\ sup_pc = "returned" =>
              /\ ret.status \in {"restarted", "started", "failed"}
              /\ ret.status = "restarted" =>
                    /\ history.starts = <<sup.proxy_url>>
                    /\ ret.url = sup.proxy_url
              /\ ret.status = "started" =>
                    /\ Len(history.starts) >= 2
                    /\ ret.url = history.starts[Len(history.starts)]
              /\ ret.status = "failed" =>
                    /\ Len(history.starts) = 1 + CandidateCount
                    /\ ret.url = sup.proxy_url

\* the candidate URLs of the call
CandidateUrls ==
    LET parsed == parse_proxy_url(sup.proxy_url)
        candidates == candidate_proxy_urls(parsed[1], parsed[2], parsed[3])
    IN  { candidates[i] : i \in 1..Len(candidates) } \ {sup.proxy_url}

\* the first probe of proxy_url got an answer that is not a compatible one
FirstAnsweredIncompatible ==
    /\ history.first_probe.response.reached
    /\ ~AnsweredCompatible(history.first_probe.response)

\* the proxy of scenario S5
S5ProxyUrl == Url("http", "127.0.0.1", 19000, <<>>)

\* the call hunted over the candidates: nothing was started at proxy_url;
\* running carries a candidate that answered compatible and was not started
\* by the call, started carries the candidate started last and probed
\* compatible, failed comes after the last candidate
PortHunted ==
    /\ \A i \in 1..Len(history.starts) : history.starts[i] \in CandidateUrls
    /\ sup_pc = "returned" =>
          /\ ret.status \in {"running", "started", "failed"}
          /\ ret.status = "running" =>
                /\ ret.url \in CandidateUrls
                /\ \A i \in 1..Len(history.starts) : history.starts[i] /= ret.url
                /\ last_probe.url = proxy_health_url(ret.url)
                /\ AnsweredCompatible(last_probe.response)
          /\ ret.status = "started" =>
                /\ history.starts /= <<>>
                /\ ret.url = history.starts[Len(history.starts)]
                /\ last_probe.url = proxy_health_url(ret.url)
                /\ AnsweredCompatible(last_probe.response)
                /\ sup.proxy_url = S5ProxyUrl => ret.url.port \in 19001..19005
          /\ ret.status = "failed" =>
                /\ sup.k > 1 + CandidateCount
                /\ ret.url = sup.proxy_url

\* C22: without force_restart, when the proxy at proxy_url answers /health
\* and the answer is not a compatible one, the call hunts over the candidate
\* URLs: running for a candidate already compatible, started for a candidate
\* started with success, failed after the last candidate; in S5 started
\* carries a port of 19001..19005.
C22_IncompatibleProxyPortHunts ==
    (LocalCall /\ ~sup.force_restart /\ FirstAnsweredIncompatible) => PortHunted

\* proxy_url names one of the three local hosts
NamesLocalHost == sup.proxy_url.host \in {"127.0.0.1", "localhost", "::1"}

\* C23: when the host of proxy_url is not 127.0.0.1, localhost or ::1, the
\* call returns skip with the original URL and has made no health probe,
\* signalled no process and started none, with and without force_restart.
C23_RemoteHostLeftAlone ==
    ~NamesLocalHost =>
        /\ last_probe = NoProbe
        /\ history = NoHistory
        /\ sup_pc \in {"import", "entry", "crashed", "returned"}
        /\ sup_pc = "returned" => ret = Return("skip", sup.proxy_url)

\* a forced restart for a remote proxy returned skip on a machine that has
\* proxy processes
C23_Witness ==
    /\ ~NamesLocalHost
    /\ sup.force_restart
    /\ host_os.proxies /= {}
    /\ sup_pc = "returned"
    /\ ret = Return("skip", sup.proxy_url)

\* C24: without force_restart the call signals no process at any point, and
\* when the first /health probe of proxy_url is compatible it starts nothing
\* and returns running with the original URL.
C24_NoRestartKillsNothing ==
    ~sup.force_restart =>
        /\ ~history.terminated
        /\ history.signalled = {}
        /\ history.killed = {}
        /\ AnsweredCompatible(history.first_probe.response) =>
              /\ history.starts = <<>>
              /\ sup_pc = "returned"
              /\ ret = Return("running", sup.proxy_url)

\* a compatible proxy found at proxy_url on a machine that has proxy
\* processes
C24_Witness ==
    /\ ~sup.force_restart
    /\ host_os.proxies /= {}
    /\ AnsweredCompatible(history.first_probe.response)
    /\ history.first_probe.url = proxy_health_url(sup.proxy_url)
    /\ sup_pc = "returned"
    /\ ret = Return("running", sup.proxy_url)

(***************************************************************************)
(* Properties of the /health handshake (SpecHealth)                        *)
(***************************************************************************)

\* both capabilities of a payload are truthy
BothCapabilities(payload) ==
    /\ payload.capabilities.is_dict
    /\ payload.capabilities.supports_responses
    /\ payload.capabilities.retry_on_not_chat_model

\* C25: GET /health is answered 200 with status ok and both capabilities
\* true; the supervisor accepts that answer, and it accepts another payload
\* exactly when its status is ok and both its capabilities are truthy,
\* whatever its version, so a payload lacking either capability is rejected.
C25_HealthHandshake ==
    call.fn = "health" =>
        /\ (call.stage /= "request" /\ call.request_path = <<"/", "health">>) =>
              /\ call.reply.status = 200
              /\ call.reply.content_type = "application/json"
              /\ call.reply.body.status = "ok"
              /\ BothCapabilities(call.reply.body)
        /\ (call.stage = "judged" /\ call.other = NoPayload
                /\ call.request_path = <<"/", "health">>) => call.verdict
        /\ (call.stage = "judged" /\ call.other /= NoPayload) =>
              (call.verdict <=> (call.other.status = "ok" /\ BothCapabilities(call.other)))

\* the answer of the proxy to GET /health was judged compatible
C25_Witness ==
    /\ call.fn = "health"
    /\ call.stage = "judged"
    /\ call.other = NoPayload
    /\ call.request_path = <<"/", "health">>
    /\ call.reply.status = 200
    /\ call.verdict

(***************************************************************************)
(* Properties of a translation applied twice (SpecTwice)                   *)
(***************************************************************************)

\* C26: translating the same request or the same reply twice gives the same
\* output, every tool id and message id included.
C26_TranslationDeterministic ==
    (call.fn = "twice" /\ Len(call.outputs) = 2) => call.outputs[1] = call.outputs[2]

(***************************************************************************)
(* Properties of map_tool_choice (SpecToolChoice)                          *)
(***************************************************************************)

\* what a tool_choice value chooses: the string itself, or the type of the dict
Chosen(tool_choice) ==
    IF tool_choice.kind = "str" THEN tool_choice.text
    ELSE IF tool_choice.kind = "dict" THEN tool_choice.type
    ELSE NoneV

\* {type: tool, name} with a name
NamesTool(tool_choice) ==
    /\ tool_choice.kind = "dict"
    /\ tool_choice.type = "tool"
    /\ tool_choice.name \notin {NoneV, ""}

\* C27: map_tool_choice passes auto and none through, turns {type: tool,
\* name} into {type: function, function: {name}}, and turns every other
\* value into auto.
C27_ToolChoiceMapped ==
    (call.fn = "map_tool_choice" /\ call.done) =>
        IF Chosen(call.tool_choice) \in {"auto", "none"}
        THEN call.result = StrChoice(Chosen(call.tool_choice))
        ELSE IF NamesTool(call.tool_choice)
        THEN call.result = FunctionChoice(call.tool_choice.name)
        ELSE call.result = StrChoice("auto")

(***************************************************************************)
(* Properties of deep_merge (SpecMerge)                                    *)
(***************************************************************************)

RECURSIVE IsMergeOf(_, _, _)
\* merged has the keys of base and override; a key override does not set
\* keeps the value of base, a key only override sets has its value, a key
\* both map to dicts is merged in the same way, a key both map to scalars
\* has the value of override
IsMergeOf(merged, base, override) ==
    /\ DOMAIN merged = DOMAIN base \cup DOMAIN override
    /\ \A key \in DOMAIN merged :
          IF key \notin DOMAIN override THEN merged[key] = base[key]
          ELSE IF key \notin DOMAIN base THEN merged[key] = override[key]
          ELSE IF base[key].is_dict /\ override[key].is_dict
          THEN /\ merged[key].is_dict
               /\ IsMergeOf(merged[key].d, base[key].d, override[key].d)
          ELSE (~base[key].is_dict /\ ~override[key].is_dict) =>
                   merged[key] = override[key]

\* C28: deep_merge(base, override) keeps every key of base that override
\* does not set, merges nested mappings key by key at every depth, and lets
\* override win for a key both set to values that are not mappings.
C28_DeepMerge ==
    (call.fn = "deep_merge" /\ call.done) =>
        IsMergeOf(call.result, call.base, call.override)

\* test_deep_merge: {a: 1, b: {c: 2}} merged with {b: {d: 3}}
C28_Witness ==
    /\ call.fn = "deep_merge"
    /\ call.done
    /\ call.base = DictOf({"a", "b"},
                          [key \in {"a", "b"} |->
                              IF key = "a" THEN Scalar(1)
                              ELSE DictValue(DictOf({"c"}, [k \in {"c"} |-> Scalar(2)]))])
    /\ call.override = DictOf({"b"},
                              [key \in {"b"} |->
                                  DictValue(DictOf({"d"}, [k \in {"d"} |-> Scalar(3)]))])
    /\ call.result["a"] = Scalar(1)
    /\ call.result["b"].d["c"] = Scalar(2)
    /\ call.result["b"].d["d"] = Scalar(3)

(***************************************************************************)
(* Properties of normalize_value (SpecNormalize)                           *)
(***************************************************************************)

\* every character of text is whitespace
AllWhitespace(text) == \A i \in 1..Len(text) : text[i] \in {" ", "\t", "\n"}

\* core is text without the whitespace around it
StrippedFrom(core, text) ==
    /\ core /= <<>> => (~AllWhitespace(<<Head(core)>>) /\ ~AllWhitespace(<<core[Len(core)]>>))
    /\ \E i \in 0..Len(text) :
          /\ i + Len(core) <= Len(text)
          /\ SubSeq(text, i + 1, i + Len(core)) = core
          /\ AllWhitespace(SubSeq(text, 1, i))
          /\ AllWhitespace(SubSeq(text, i + Len(core) + 1, Len(text)))

\* C29: normalize_value(value, fallback) is fallback when value is None or
\* its string form holds nothing but whitespace, and otherwise the string
\* form of value without the whitespace around it.
C29_NormalizeValue ==
    (call.fn = "normalize_value" /\ call.done) =>
        IF call.value.kind = "none" \/ AllWhitespace(call.value.text)
        THEN call.result = call.fallback
        ELSE /\ call.result /= <<>>
             /\ StrippedFrom(call.result, call.value.text)

\* test_normalize_value: a string with whitespace around a letter
C29_Witness ==
    /\ call.fn = "normalize_value"
    /\ call.done
    /\ call.value = ConfigValue("str", <<" ", "a", "\n">>)
    /\ call.fallback = <<"d", "e", "f">>
    /\ call.result = <<"a">>

-----------------------------------------------------------------------------
(* C30: argument fragments of a streamed tool call                         *)

RECURSIVE FragmentsOf(_, _)
\* the non-empty arguments of the entries of tool_calls for ordinal i
FragmentsOf(tool_calls, i) ==
    IF tool_calls = <<>> THEN <<>>
    ELSE LET tc == Head(tool_calls)
         IN  (IF tc.index = i /\ tc.arguments /= <<>> THEN <<tc.arguments>> ELSE <<>>)
             \o FragmentsOf(Tail(tool_calls), i)

RECURSIVE ReceivedChat(_, _)
\* the fragments for ordinal i that the chunks evs carry, in arrival order
ReceivedChat(evs, i) ==
    IF evs = <<>> THEN <<>>
    ELSE LET ev == Head(evs)
         IN  (IF ev.kind = "chunk" /\ ev.choices THEN FragmentsOf(ev.tool_calls, i)
              ELSE <<>>)
             \o ReceivedChat(Tail(evs), i)

RECURSIVE ReceivedResponses(_, _, _)
\* the fragments for ordinal i that the Responses events evs carry: the
\* arguments of an added function_call item, each arguments delta, and what a
\* done event adds to the text so far (acc) when it extends it
ReceivedResponses(evs, i, acc) ==
    IF evs = <<>> THEN <<>>
    ELSE LET ev == Head(evs)
             mine == ev.kind /= "skip" /\ ev.index = i
             added == mine /\ ev.kind = "response.output_item.added"
                           /\ ev.item_type = "function_call"
             delta == mine /\ ev.kind = "response.function_call_arguments.delta"
             done == mine /\ ev.kind = "response.function_call_arguments.done"
                          /\ ev.text /= <<>> /\ StartsWith(ev.text, acc)
             fragment == IF added \/ delta THEN ev.text
                         ELSE IF done THEN DropFirst(ev.text, Len(acc))
                         ELSE <<>>
             acc1 == IF added \/ done THEN ev.text
                     ELSE IF delta THEN acc \o ev.text
                     ELSE acc
         IN  (IF fragment /= <<>> THEN <<fragment>> ELSE <<>>)
             \o ReceivedResponses(Tail(evs), i, acc1)

Received(i) ==
    IF path = "chat" THEN ReceivedChat(events, i)
    ELSE ReceivedResponses(events, i, <<>>)

\* the tool state of ordinal i, a fresh one when the writer has none
ToolStateOf(i) ==
    IF DictPos(writer.tool_states, i) = 0 THEN NewToolState(i)
    ELSE writer.tool_states[DictPos(writer.tool_states, i)]

\* the positions on the wire of the input_json_delta frames of block b
FragmentPositions(b) ==
    {j \in 1..Len(Wfile) : /\ IsBlockDelta(Wfile[j])
                           /\ Wfile[j].kind = "input_json_delta"
                           /\ Wfile[j].index = b}

IsFragmentOf(b, f) == IsBlockDelta(f) /\ f.kind = "input_json_delta" /\ f.index = b

\* the partial_json of the input_json_delta frames of block b, in wire order
RECURSIVE EmittedFrom(_, _)
EmittedFrom(b, j) ==
    IF j > Len(Wfile) THEN <<>>
    ELSE (IF IsFragmentOf(b, Wfile[j]) THEN <<Wfile[j].data>> ELSE <<>>)
         \o EmittedFrom(b, j + 1)

Emitted(b) == EmittedFrom(b, 1)

\* the positions of the tool_use content_block_start frames of block b
ToolStartPositions(b) == {j \in 1..Len(Wfile) : IsToolStart(Wfile[j]) /\ Wfile[j].index = b}

\* the response ran to its end and has a message: writer.finish() was called
FinishedMessage == Finished /\ writer.started

C30_WitnessStream ==
    /\ FinishedMessage
    /\ path = "chat"
    /\ ToolStateOf(0).name = "f"
    /\ Emitted(ToolStateOf(0).content_index) = << <<"b">>, <<"a">> >>

-----------------------------------------------------------------------------
(* C31: argument text on the Responses streaming path                      *)

RECURSIVE JoinFragments(_)
\* the concatenation of a sequence of fragments
JoinFragments(fragments) ==
    IF fragments = <<>> THEN <<>>
    ELSE Head(fragments) \o JoinFragments(Tail(fragments))

\* event k is one of the three argument-carrying events for output index i
IsArgumentEvent(k, i) ==
    /\ events[k].kind \in {"response.output_item.added",
                           "response.function_call_arguments.delta",
                           "response.function_call_arguments.done"}
    /\ events[k].index = i
    /\ events[k].kind = "response.output_item.added" => events[k].item_type = "function_call"

\* the last argument-carrying event for output index i is a done event whose
\* full string extended the accumulated one: the accumulator now holds it
DoneExtended(i) ==
    \E k \in 1..Len(events) :
        /\ IsArgumentEvent(k, i)
        /\ events[k].kind = "response.function_call_arguments.done"
        /\ \A later \in (k + 1)..Len(events) : ~IsArgumentEvent(later, i)
        /\ events[k].text /= <<>>
        /\ tool_args[i] = events[k].text

\* C31: on the Responses streaming path, for every output index and every
\* order of added, delta and done events, when the done event's full
\* arguments string extends the accumulated one, the input_json_delta
\* fragments emitted for that index concatenate to the full string: no
\* argument text is sent twice.
C31_ArgumentTextSentOnce ==
    (FinishedMessage /\ path = "responses") =>
        \A i \in ToolOrdinals :
            DoneExtended(i) =>
                JoinFragments(Emitted(ToolStateOf(i).content_index)) = tool_args[i]

\* no function_call item was added for index i after an arguments delta
AddedBeforeDeltas(i) ==
    \A k \in 1..Len(events), later \in 1..Len(events) :
        (/\ k < later
         /\ IsArgumentEvent(k, i)
         /\ IsArgumentEvent(later, i)
         /\ events[later].kind = "response.output_item.added")
        => events[k].kind = "response.output_item.added" /\ events[k].text = <<>>

\* what the handler does keep: the text is sent once when the item is added,
\* without arguments, before its deltas
C31_SentOnceWhenAddedFirst ==
    (FinishedMessage /\ path = "responses") =>
        \A i \in ToolOrdinals :
            (DoneExtended(i) /\ AddedBeforeDeltas(i)) =>
                JoinFragments(Emitted(ToolStateOf(i).content_index)) = tool_args[i]

-----------------------------------------------------------------------------
(* C32: a failed downstream write                                          *)

\* what the step from this state writes when no write fails: the handler
\* of the line just read, or finish() when no line was read
FaultFree ==
    IF events' = events THEN AfterLoop(writer)
    ELSE LET ev == events'[Len(events')]
         IN  IF path = "chat" THEN ChatIteration(writer, ev)
             ELSE LET r == ResponsesIteration(writer, tool_args, ev)
                  IN  IF r.brk THEN AfterLoop(r.w) ELSE r.w

IsProperPrefix(s, t) == Len(s) < Len(t) /\ SubSeq(t, 1, Len(s)) = s

\* C32: when a frame write fails, the frames on the wire are the ones written
\* before it and none after it, whether the write belongs to a line's
\* handling or to finalization; from then on no frame is written and no
\* upstream line is read.
C32_NothingAfterFailedWrite ==
    [][ /\ (pc = "read" /\ pc' = "broken") =>
              /\ IsProperPrefix(writer'.wfile, FaultFree.wfile)
              /\ StartsWith(writer'.wfile, writer.wfile)
              /\ Len(events') <= Len(events) + 1
        /\ pc = "broken" => (writer' = writer /\ events' = events /\ pc' = pc) ]_vars

\* the client went away during finalization, after a content_block_stop and
\* before message_stop
C32_Witness ==
    /\ pc = "broken"
    /\ PositionsOf("content_block_stop") /= {}
    /\ PositionsOf("message_stop") = {}
    /\ events /= <<>>

\* the client went away while a line was handled: a block is open
C32_WitnessStream ==
    /\ pc = "broken"
    /\ PositionsOf("content_block_start") /= {}
    /\ PositionsOf("content_block_stop") = {}

-----------------------------------------------------------------------------
(* C33: concurrent requests                                                *)

RECURSIVE AloneFrom(_, _, _, _)
\* the writer after a handler of its own has read lines, with no other
\* request in the server and no failed write; ta is the Responses handler's
\* tool_args
AloneFrom(thread_path, lines, w, ta) ==
    IF lines = <<>> THEN w
    ELSE IF thread_path = "chat"
    THEN AloneFrom(thread_path, Tail(lines), ChatIteration(w, Head(lines)), ta)
    ELSE LET r == ResponsesIteration(w, ta, Head(lines))
         IN  IF r.brk THEN r.w
             ELSE AloneFrom(thread_path, Tail(lines), r.w, r.tool_args)

\* the frames of the response to the lines, handled alone, up to the end of
\* the loop, and with finalization
AloneFrames(t) == AloneFrom(t.path, t.events, StreamWriterInit,
                            [i \in ToolOrdinals |-> <<>>]).wfile

AloneFinishedFrames(t) ==
    AfterLoop(AloneFrom(t.path, t.events, StreamWriterInit,
                        [i \in ToolOrdinals |-> <<>>])).wfile

\* C33: with several requests handled concurrently, in every interleaving
\* of the threads each streaming response carries the frames its request
\* gives when it is handled alone: all of them when the handler has run to
\* its end, the frames of the lines read so far while it reads, and a
\* prefix of them when its client went away.
C33_ResponsesIndependent ==
    call.fn = "serve_forever" =>
        \A k \in ThreadIds :
            LET t == call.threads[k]
            IN  /\ t.pc = "read" => t.writer.wfile = AloneFrames(t)
                /\ t.pc = "done" => t.writer.wfile = AloneFinishedFrames(t)
                /\ t.pc = "broken" =>
                      StartsWith(AloneFinishedFrames(t), t.writer.wfile)

\* both threads are in their streams at once, both have opened a tool block
\* and one has finished while the other still reads
C33_Witness ==
    /\ call.fn = "serve_forever"
    /\ call.threads[1].pc = "done"
    /\ call.threads[2].pc = "read"
    /\ \A k \in ThreadIds :
          /\ Len(call.threads[k].events) = MaxThreadEvents
          /\ call.threads[k].writer.tool_states /= <<>>
          /\ call.threads[k].writer.next_index >= 1

-----------------------------------------------------------------------------
(* C34, C35: the bounds and the ports of ensure_proxy_running              *)

\* C34: a call of ensure_proxy_running makes at most 6 spawn attempts, each
\* wait-for-ready loop makes at most 10 /health probes, and restarted or
\* started is returned only on a compatible payload.
C34_BoundedSpawnsAndProbes ==
    /\ Len(history.starts) <= 6
    /\ sup.attempts < 10
    /\ (sup_pc = "returned" /\ ret.status \in {"restarted", "started"}) =>
          AnsweredCompatible(last_probe.response)

\* what the loops do bound: one start at proxy_url and one for each of the
\* six candidate URLs
C34_SpawnsBoundedByCandidates ==
    /\ Len(history.starts) <= 2 + CandidateCount
    /\ sup.attempts < WaitAttempts
    /\ sup.proxy_url = IncrementedUrl(0) => Len(history.starts) <= 1 + CandidateCount

\* the starts made while hunting for a port: those after the restart at
\* proxy_url, or all of them when an old proxy was detected
HuntStarts ==
    IF sup.phase \in {"restart", "restart_candidates"} THEN Tail(history.starts)
    ELSE IF sup.phase = "old" THEN history.starts
    ELSE <<>>

BasePort == parse_proxy_url(sup.proxy_url)[2]

\* C35: in the force-restart and in the incompatible-proxy branch, whatever
\* the form of proxy_url, the ports tried while hunting are among port+1 ..
\* port+5, in increasing order, and the original port is not tried again.
C35_HuntsIncrementedPorts ==
    (sup.phase \in {"restart", "restart_candidates", "old"} /\ history.starts /= <<>>) =>
        /\ \A i \in 1..Len(HuntStarts) :
              /\ HuntStarts[i].port \in (BasePort + 1)..(BasePort + 5)
              /\ HuntStarts[i].port /= BasePort
        /\ \A i, j \in 1..Len(HuntStarts) :
              i < j => HuntStarts[i].port < HuntStarts[j].port
        /\ sup.phase \in {"restart", "restart_candidates"} =>
              \A i \in 1..Len(HuntStarts) : HuntStarts[i].port = BasePort + i

\* the same for a proxy_url written as build_proxy_url writes it
C35_HuntsIncrementedPortsCanonical ==
    sup.proxy_url = IncrementedUrl(0) => C35_HuntsIncrementedPorts

-----------------------------------------------------------------------------
(* C36, C37: the processes around one call of ensure_proxy_running         *)

\* C36: when ensure_proxy_running with force_restart returns restarted or
\* started, the proxy that answered /health at the returned URL is a process
\* spawned by this call, not one that was there before it.
C36_AnsweredBySpawnedProcess ==
    (sup.force_restart /\ sup_pc = "returned" /\ ret.status \in {"restarted", "started"}) =>
        history.answerer = "spawned"

\* C37: when ensure_proxy_running returns a URL at which a proxy answers
\* (running, restarted, started), no child spawned by this call is left at
\* another URL: no wait for a child has timed out without the child being
\* stopped.
C37_NoChildLeftElsewhere ==
    (sup_pc = "returned" /\ ret.status \in {"running", "restarted", "started"}) =>
        ~history.abandoned

-----------------------------------------------------------------------------
(* C38: the responses of one POST                                          *)

\* C38: every POST that reaches do_POST is answered with exactly one HTTP
\* response status: no path ends without a response and none sends a second
\* one.
C38_ExactlyOneResponse == Returned => Len(replies) = 1

\* what do_POST does keep: never a second status, and one status on every
\* path that no exception leaves
C38_AtMostOneResponse ==
    /\ Len(replies) <= 1
    /\ post_pc = "done" => Len(replies) = 1

-----------------------------------------------------------------------------
(* C39, C40: the stop_reason of a streamed response                        *)

\* the stop_reason of the message_delta frame ("-" when there is none)
StopReasonSent ==
    IF PositionsOf("message_delta") = {} THEN "-"
    ELSE Wfile[CHOOSE j \in PositionsOf("message_delta") : TRUE].kind

RECURSIVE LastFinishReason(_)
\* the finish_reason of the streamed Chat Completions reply: the last one a
\* chunk carried
LastFinishReason(evs) ==
    IF evs = <<>> THEN NoneV
    ELSE LET ev == evs[Len(evs)]
         IN  IF ev.kind = "chunk" /\ ev.choices /\ ev.finish_reason /= NoneV
             THEN ev.finish_reason
             ELSE LastFinishReason(SubSeq(evs, 1, Len(evs) - 1))

\* the streamed Chat Completions reply carries tool calls
ChatHasToolCalls ==
    \E k \in 1..Len(events) :
        events[k].kind = "chunk" /\ events[k].choices /\ events[k].tool_calls /= <<>>

IsAddedItem(ev) == ev.kind = "response.output_item.added"

RECURSIVE ItemTypes(_)
ItemTypes(evs) ==
    IF evs = <<>> THEN <<>> ELSE <<Head(evs).item_type>> \o ItemTypes(Tail(evs))

\* the Responses stream ended with response.completed / incomplete / failed
EndedByTerminal ==
    /\ events /= <<>>
    /\ events[Len(events)].kind \in {"response.completed", "response.incomplete",
                                     "response.failed"}

\* the reply the streamed Responses events add up to: the items added and
\* the incomplete reason of the terminal event
StreamedReply ==
    ResponsesReply(ItemTypes(SelectSeq(events, IsAddedItem)), events[Len(events)].name)

\* C39: for the same upstream outcome the stop_reason of the streamed
\* response equals the stop_reason of the translation that is not streamed,
\* on the Chat path and on the Responses path, also for a Responses reply
\* with a function call that is incomplete because of max_tokens or
\* max_output_tokens.
C39_StreamedStopReasonAsTranslated ==
    FinishedMessage =>
        /\ path = "chat" =>
              StopReasonSent = map_finish_reason(LastFinishReason(events), ChatHasToolCalls)
        /\ (path = "responses" /\ EndedByTerminal) =>
              StopReasonSent = openai_responses_to_anthropic(StreamedReply).stop_reason

\* the Responses stream carries argument events or function_call items
ResponsesHasToolEvents ==
    \E k \in 1..Len(events), i \in ToolOrdinals : IsArgumentEvent(k, i)

\* what the handlers keep: the two agree on the Chat path, and on the
\* Responses path for a reply without tool events
C39_AgreeWithoutToolEvents ==
    FinishedMessage =>
        /\ path = "chat" =>
              StopReasonSent = map_finish_reason(LastFinishReason(events), ChatHasToolCalls)
        /\ (path = "responses" /\ EndedByTerminal /\ ~ResponsesHasToolEvents) =>
              StopReasonSent = openai_responses_to_anthropic(StreamedReply).stop_reason

\* C40: in a finished streaming response whose upstream finish_reason is not
\* tool_calls, message_delta reports stop_reason tool_use if and only if a
\* tool_use content_block_start was emitted.
C40_ToolUseIffToolBlockStarted ==
    (FinishedMessage /\ writer.finish_reason /= "tool_calls") =>
        (StopReasonSent = "tool_use" <=>
            \E j \in 1..Len(Wfile) : IsToolStart(Wfile[j]))

\* what finish() does keep: a started tool block gives tool_use, and
\* tool_use is reported exactly when a tool state exists, started or not
C40_ToolUseIffToolState ==
    (FinishedMessage /\ writer.finish_reason /= "tool_calls") =>
        /\ (\E j \in 1..Len(Wfile) : IsToolStart(Wfile[j])) => StopReasonSent = "tool_use"
        /\ StopReasonSent = "tool_use" <=> writer.tool_states /= <<>>

====
